---- MODULE Spec2Model ----
(***************************************************************************)
(* Model of the resume-builder backend:                                    *)
(*   - the completion client of src/src/services/aiService.js              *)
(*     (callGeminiAPI retry loop, parseResponse, parseResumeResponse,      *)
(*     createFallbackResponse, validateAndFixResponse, optimizeResume);    *)
(*   - the is_default handling of the profile and template routes          *)
(*     (src/src/routes/templateRoutes.js, src/src/middleware/upload.js);   *)
(*   - the transport of src/src/utils/httpClient.js and makeHTTPRequest;   *)
(*   - the resume routes (optimize, update, delete) and the registration   *)
(*     route of src/src/routes/authRoutes.js.                              *)
(***************************************************************************)
EXTENDS Naturals, Integers, Sequences, FiniteSets, TLC

(***************************************************************************)
(* JavaScript values.  A value is a record [t, s]: t is the JavaScript     *)
(* type, s the value's text.  Two values are equal iff both agree.         *)
(***************************************************************************)
Undef == [t |-> "undefined", s |-> "undefined"]
Null == [t |-> "null", s |-> "null"]
Num(s) == [t |-> "number", s |-> s]
Str(s) == [t |-> "string", s |-> s]
Arr(s) == [t |-> "array", s |-> s]
Obj(s) == [t |-> "object", s |-> s]
EmptyStr == Str("")
EmptyArr == Arr("[]")

\* JavaScript truthiness, as used by the || operator and by if (...)
Truthy(v) ==
  CASE v.t = "undefined" -> FALSE
    [] v.t = "null" -> FALSE
    [] v.t = "number" -> v.s # "0"
    [] v.t = "string" -> v.s # ""
    [] OTHER -> TRUE

\* a || b
JsOr(a, b) == IF Truthy(a) THEN a ELSE b

\* Array.isArray(v) && v.length > 0
IsNonEmptyArray(v) == v.t = "array" /\ v.s # "[]"

StringFields == {"name", "email", "linkedinUrl", "professionalSummary"}
ArrayFields == {"mobileNumbers", "professionalExperience", "skills", "education"}
Fields == StringFields \cup ArrayFields
\* member names a model answer may carry: the eight of the schema and one more
Keys == Fields \cup {"extra"}

(***************************************************************************)
(* Text.  A text is a sequence of tokens [c, k, v]:                        *)
(*   c = "{" "}" ","          the JSON punctuation                         *)
(*   c = "member"             the text  "k": v  of one object member       *)
(*   c = "value"              the text of a JSON value that is no object   *)
(*   c = "ws"                 white space                                  *)
(*   c = "fence-json"         the Markdown fence opening a json block      *)
(*   c = "fence"              a bare Markdown fence (three backquotes)     *)
(*   c = "x"                  a word of commentary, without brace          *)
(***************************************************************************)
Tok(c) == [c |-> c, k |-> "", v |-> Undef]
Member(k, v) == [c |-> "member", k |-> k, v |-> v]
Value(v) == [c |-> "value", k |-> "", v |-> v]
LBrace == Tok("{")
RBrace == Tok("}")
Comma == Tok(",")
Ws == Tok("ws")
FenceJson == Tok("fence-json")
Fence == Tok("fence")
Word == Tok("x")

RECURSIVE TrimStart(_)
TrimStart(s) == IF s # <<>> /\ Head(s) = Ws THEN TrimStart(Tail(s)) ELSE s

RECURSIVE TrimEnd(_)
TrimEnd(s) ==
  IF s # <<>> /\ s[Len(s)] = Ws THEN TrimEnd(SubSeq(s, 1, Len(s) - 1)) ELSE s

\* String.prototype.trim
Trim(s) == TrimEnd(TrimStart(s))

\* Values whose text holds Markdown fences: a string and an array of one such
\* string.  In the text of a value, <fence> stands for three backquotes.
FencedStr == Str("run <fence>ls<fence> first")
FencedArr == Arr("[run <fence>ls<fence> first]")

\* what replace(/<fence>\s*/g, empty) leaves of the text of a value: the
\* fences within a JSON string go like any other, with the white space after
StripFences(v) ==
  CASE v = FencedStr -> Str("run lsfirst")
    [] v = FencedArr -> Arr("[run lsfirst]")
    [] OTHER -> v

\* s.replace(/<fence>\s*/g, empty): every fence goes, with the white space
\* after it; the bare fences within a member or a value go with the bare ones
RECURSIVE RemoveFence(_, _)
RemoveFence(s, fence) ==
  IF s = <<>> THEN <<>>
  ELSE IF Head(s) = fence THEN RemoveFence(TrimStart(Tail(s)), fence)
  ELSE <<IF fence = Fence THEN [Head(s) EXCEPT !.v = StripFences(@)] ELSE Head(s)>>
         \o RemoveFence(Tail(s), fence)

\* String.prototype.indexOf, 0-based, -1 when absent
IndexOf(s, tok) ==
  IF \E i \in 1..Len(s) : s[i] = tok
  THEN (CHOOSE i \in 1..Len(s) : s[i] = tok /\ \A j \in 1..(i - 1) : s[j] # tok) - 1
  ELSE -1

\* String.prototype.lastIndexOf, 0-based, -1 when absent
LastIndexOf(s, tok) ==
  IF \E i \in 1..Len(s) : s[i] = tok
  THEN (CHOOSE i \in 1..Len(s) : s[i] = tok /\ \A j \in (i + 1)..Len(s) : s[j] # tok) - 1
  ELSE -1

Min(a, b) == IF a < b THEN a ELSE b
Max(a, b) == IF a < b THEN b ELSE a

\* String.prototype.substring(a, b): 0-based, b exclusive, arguments clamped
\* to 0..length and swapped when a > b
Substring(s, a, b) ==
  LET ca == Min(Max(a, 0), Len(s))
      cb == Min(Max(b, 0), Len(s))
  IN SubSeq(s, Min(ca, cb) + 1, Max(ca, cb))

RemoveWs(s) == SelectSeq(s, LAMBDA t : t # Ws)

\* the member list between the braces: member (, member)*  or nothing
IsMemberList(m) ==
  \/ m = <<>>
  \/ /\ Len(m) % 2 = 1
     /\ \A i \in 1..Len(m) :
          IF i % 2 = 1 THEN m[i].c = "member" ELSE m[i] = Comma

\* the value of member k of a member list: the last one given wins
MemberValue(m, k) ==
  IF \E i \in 1..Len(m) : m[i].c = "member" /\ m[i].k = k
  THEN m[CHOOSE i \in 1..Len(m) :
           /\ m[i].c = "member" /\ m[i].k = k
           /\ \A j \in (i + 1)..Len(m) : ~(m[j].c = "member" /\ m[j].k = k)].v
  ELSE Undef

NoMembers == [k \in Keys |-> Undef]

\* JSON.parse: [ok, t, s, o].  ok = FALSE is the SyntaxError; otherwise t, s
\* are the type and text of the value and o its members when it is an object.
JSONParse(text) ==
  LET s == RemoveWs(text)
      inner == SubSeq(s, 2, Len(s) - 1)
  IN IF Len(s) = 1 /\ s[1].c = "value"
     THEN [ok |-> TRUE, t |-> s[1].v.t, s |-> s[1].v.s, o |-> NoMembers]
     ELSE IF Len(s) >= 2 /\ s[1] = LBrace /\ s[Len(s)] = RBrace /\ IsMemberList(inner)
     THEN [ok |-> TRUE, t |-> "object", s |-> "{...}",
           o |-> [k \in Keys |-> MemberValue(inner, k)]]
     ELSE [ok |-> FALSE, t |-> "undefined", s |-> "SyntaxError", o |-> NoMembers]

(***************************************************************************)
(* The repair stage of the completion client.                              *)
(* personalInfo is a record [fullName, email, phone, linkedinUrl] of       *)
(* JavaScript values.                                                      *)
(***************************************************************************)

\* fullName.toLowerCase().replace(/\s+/g, '-') behind the linkedin prefix
LinkedinFromName(fullName) ==
  CASE fullName.s = "Ana Lee" -> Str("https://linkedin.com/in/ana-lee")
    [] fullName.s = "ana  lee" -> Str("https://linkedin.com/in/ana-lee")
    [] fullName.s = "Bo" -> Str("https://linkedin.com/in/bo")
    [] OTHER -> Str("https://linkedin.com/in/")

\* personalInfo.phone ? [personalInfo.phone] : []
PhoneList(personalInfo) ==
  IF Truthy(personalInfo.phone)
  THEN Arr("[" \o personalInfo.phone.s \o "]")
  ELSE EmptyArr

\* personalInfo.linkedinUrl || `https://linkedin.com/in/${...}`
LinkedinDefault(personalInfo) ==
  JsOr(personalInfo.linkedinUrl, LinkedinFromName(personalInfo.fullName))

FallbackSummary == Str("Experienced professional with strong background ...")
FallbackExperience == Arr("[{jobName: Previous Company, ...}]")
FallbackSkills == Arr("[{skillName: Core Skills, skills: [Communication, ...]}]")
FallbackEducation == Arr("[{degree: Bachelor's Degree, ...}]")

\* variant: a fallback object that carries the contact fields only
createFallbackResponseBare(personalInfo) ==
  [ok |-> TRUE, t |-> "object", s |-> "{fallback}",
   o |-> [k \in Keys |->
     CASE k = "name" -> personalInfo.fullName
       [] k = "email" -> personalInfo.email
       [] k \in ArrayFields -> EmptyArr
       [] OTHER -> Undef]]

\* createFallbackResponse: the object used when JSON.parse throws
createFallbackResponse(personalInfo) ==
  [ok |-> TRUE, t |-> "object", s |-> "{fallback}",
   o |-> [k \in Keys |->
     CASE k = "name" -> personalInfo.fullName
       [] k = "email" -> personalInfo.email
       [] k = "mobileNumbers" -> PhoneList(personalInfo)
       [] k = "linkedinUrl" -> LinkedinDefault(personalInfo)
       [] k = "professionalSummary" -> FallbackSummary
       [] k = "professionalExperience" -> FallbackExperience
       [] k = "skills" -> FallbackSkills
       [] k = "education" -> FallbackEducation
       [] OTHER -> Undef]]

DefaultSummary == Str("Professional seeking new opportunities ...")
DefaultExperience == Arr("[{jobName: Previous Experience, ...}]")
DefaultSkills == Arr("[{skillName: Core Skills, skills: [Professional Skills, ...]}]")
DefaultEducation == Arr("[{degree: Education Background, ...}]")

\* the default validateAndFixResponse substitutes for field k
FieldDefault(k, personalInfo) ==
  CASE k = "name" -> personalInfo.fullName
    [] k = "email" -> personalInfo.email
    [] k = "mobileNumbers" -> PhoneList(personalInfo)
    [] k = "linkedinUrl" -> LinkedinDefault(personalInfo)
    [] k = "professionalSummary" -> DefaultSummary
    [] k = "professionalExperience" -> DefaultExperience
    [] k = "skills" -> DefaultSkills
    [] k = "education" -> DefaultEducation

\* data.k for a parsed value: a member of an object, undefined on a number,
\* string, boolean or array
GetProp(data, k) == IF data.t = "object" THEN data.o[k] ELSE Undef

\* reading a property of null or undefined raises a TypeError
PropThrows(data) == data.t \in {"null", "undefined"}

\* one field of validatedResponse: strings by ||, arrays by isArray && length > 0
FixField(k, data, personalInfo) ==
  IF k \in ArrayFields
  THEN IF IsNonEmptyArray(GetProp(data, k))
       THEN GetProp(data, k)
       ELSE FieldDefault(k, personalInfo)
  ELSE JsOr(GetProp(data, k), FieldDefault(k, personalInfo))

NoRecord == [k \in Fields |-> Undef]

\* validateAndFixResponse: [threw, rec]
validateAndFixResponse(optimizedResumeData, personalInfo) ==
  IF PropThrows(optimizedResumeData)
  THEN [threw |-> TRUE, rec |-> NoRecord]
  ELSE [threw |-> FALSE,
        rec |-> [k \in Fields |-> FixField(k, optimizedResumeData, personalInfo)]]

\* variant: the text is parsed whole, without the slice between the braces
CleanResponseWhole(response) ==
  RemoveFence(RemoveFence(Trim(response), FenceJson), Fence)

\* the text handed to JSON.parse: trimmed, fences removed, cut to the span
\* from the first { to the last }
CleanResponse(response) ==
  LET trimmed == Trim(response)
      cleaned == RemoveFence(RemoveFence(trimmed, FenceJson), Fence)
      jsonStart == IndexOf(cleaned, LBrace)
      jsonEnd == LastIndexOf(cleaned, RBrace)
  IN IF jsonStart # -1 /\ jsonEnd # -1
     THEN Substring(cleaned, jsonStart, jsonEnd + 1)
     ELSE cleaned

\* parseResumeResponse: [threw, rec]
parseResumeResponse(response, personalInfo) ==
  LET parsed == JSONParse(CleanResponse(response))
      optimizedResumeData ==
        IF parsed.ok THEN parsed ELSE createFallbackResponse(personalInfo)
  IN validateAndFixResponse(optimizedResumeData, personalInfo)

(***************************************************************************)
(* Inputs of the repair stage: contact infos and model texts.              *)
(***************************************************************************)

\* how many members of a model answer deviate from the well-formed answer
MaxOdd == 1

\* contact infos with non-empty fullName and email (the routes reject others)
Infos ==
  [fullName : {Str("Ana Lee")},
   email : {Str("ana@x.com")},
   phone : {Undef, Str("555-0100")},
   linkedinUrl : {Null, Str("https://linkedin.com/in/ana")}]

\* the value a well-formed answer gives member k
GoodValue(k) ==
  IF k \in StringFields THEN Str("model " \o k) ELSE Arr("[model " \o k \o "]")

\* the well-formed answer: the eight fields, each non-empty and of its type
GoodObject == [k \in Keys |-> IF k \in Fields THEN GoodValue(k) ELSE Undef]

\* what a member may be instead; Undef stands for a member that is absent
OddValues ==
  {Undef, Null, Num("0"), Num("5"), EmptyStr, Str("x"), EmptyArr, Arr("[x]"),
   Obj("{...}")}

\* the answers that differ from the well-formed one in at most MaxOdd members
Objects ==
  UNION {{[k \in Keys |-> IF k \in S THEN a[k] ELSE GoodObject[k]] :
            a \in [S -> OddValues]} :
         S \in {T \in SUBSET Keys : Cardinality(T) <= MaxOdd}}

\* answers with a fence within one value, alone or with another field absent
FencedObjects ==
  LET fenced(k) == IF k \in StringFields THEN FencedStr ELSE FencedArr
  IN {[GoodObject EXCEPT ![k] = fenced(k)] : k \in Fields} \cup
     {[GoodObject EXCEPT ![k] = fenced(k), ![a] = Undef] :
        k \in {"professionalSummary", "skills"}, a \in {"name", "education"}}

KeyOrder ==
  <<"name", "email", "mobileNumbers", "linkedinUrl", "professionalSummary",
    "professionalExperience", "skills", "education", "extra">>

\* the members of o from position i on, each followed by a comma
RECURSIVE MembersFrom(_, _)
MembersFrom(o, i) ==
  IF i > Len(KeyOrder) THEN <<>>
  ELSE IF o[KeyOrder[i]] = Undef THEN MembersFrom(o, i + 1)
  ELSE <<Member(KeyOrder[i], o[KeyOrder[i]]), Comma>> \o MembersFrom(o, i + 1)

\* the JSON text of object o
ObjectText(o) ==
  LET m == MembersFrom(o, 1)
  IN <<LBrace>> \o (IF m = <<>> THEN <<>> ELSE SubSeq(m, 1, Len(m) - 1)) \o <<RBrace>>

\* a text alone, padded, in code fences, and with commentary around it
Wrappings(t) ==
  {t,
   <<Ws>> \o t \o <<Ws>>,
   <<FenceJson, Ws>> \o t \o <<Ws, Fence>>,
   <<Fence, Ws>> \o t \o <<Ws, Fence>>,
   <<Word, Ws>> \o t,
   t \o <<Ws, Word>>,
   <<Word, Ws, FenceJson, Ws>> \o t \o <<Ws, Fence, Ws, Word>>}

\* texts that are no JSON object
OtherTexts ==
  LET good == ObjectText(GoodObject)
      m == Member("name", Str("x"))
  IN {<<Word>>, <<Word, Ws, Word>>,
      <<LBrace, m>>, <<m, RBrace>>,
      <<LBrace, Comma, RBrace>>, <<LBrace, m, Comma, RBrace>>,
      <<LBrace, m, m, RBrace>>, <<LBrace, Word, RBrace>>,
      <<LBrace, m, Comma, Member("name", Str("y")), RBrace>>,
      good \o <<Ws>> \o good,
      <<LBrace, Word, RBrace, Ws>> \o good,
      <<RBrace, LBrace>>, <<RBrace, Word, LBrace>>,
      <<RBrace, Value(Num("5")), LBrace>>, <<RBrace, Value(Null), LBrace>>,
      <<Value(Null)>>, <<Value(Num("5"))>>, <<Value(Num("0"))>>,
      <<Value(Str("x"))>>, <<Value(EmptyArr)>>, <<Value(Arr("[x]"))>>,
      <<FenceJson, Ws, Value(Null), Ws, Fence>>,
      <<Value(Num("5")), Ws, Value(Num("5"))>>}

Texts ==
  (UNION {Wrappings(ObjectText(o)) : o \in Objects \cup FencedObjects}) \cup OtherTexts

VARIABLES pText, pInfo, pOut, pPc

pvars == <<pText, pInfo, pOut, pPc>>

NoOutput == [threw |-> FALSE, rec |-> NoRecord]

InitParse ==
  /\ pText \in Texts
  /\ pInfo \in Infos
  /\ pOut = NoOutput
  /\ pPc = "input"

\* one call of parseResumeResponse(pText, pInfo)
ParseResume ==
  /\ pPc = "input"
  /\ pOut' = parseResumeResponse(pText, pInfo)
  /\ pPc' = "returned"
  /\ UNCHANGED <<pText, pInfo>>


(***************************************************************************)
(* The repair stage as the second version of the service has it: the       *)
(* clean-up of the text is the same, the fallback object and the defaults  *)
(* are new and read the clock.  year is new Date().getFullYear().          *)
(***************************************************************************)

\* how often the year changes between the calls
MaxTicks == 2

\* the years the clock shows
Years == 2026..(2026 + MaxTicks)

\* personalInfo.fullName.split(' ')[0]
FirstName(fullName) ==
  CASE fullName.s = "Ana Lee" -> "Ana"
    [] OTHER -> fullName.s

\* createFallbackResponse of the second version: graduationYear is
\* currentYear - 5 and the tenure runs from graduationYear - 4 to it
createFallbackResponse2(personalInfo, year) ==
  [ok |-> TRUE, t |-> "object", s |-> "{fallback}",
   o |-> [k \in Keys |->
     CASE k = "name" -> personalInfo.fullName
       [] k = "email" -> personalInfo.email
       [] k = "mobileNumbers" -> PhoneList(personalInfo)
       [] k = "linkedinUrl" -> LinkedinDefault(personalInfo)
       [] k = "professionalSummary" -> Str("Results-driven professional with 5+ years ...")
       [] k = "professionalExperience" ->
            Arr("[{jobName: Technology Solutions Inc., term: 01/2021 - Present, ...}, ...]")
       [] k = "skills" -> Arr("[{skillName: Core Professional Skills, ...}, ...]")
       [] k = "education" ->
            Arr("[{degree: Bachelor of Science in Business Administration, tenure: "
                \o ToString(year - 5 - 4) \o " - " \o ToString(year - 5) \o "}]")
       [] OTHER -> Undef]]

\* the default validateAndFixResponse of the second version substitutes
FieldDefault2(k, personalInfo, year) ==
  CASE k = "name" -> personalInfo.fullName
    [] k = "email" -> personalInfo.email
    [] k = "mobileNumbers" -> PhoneList(personalInfo)
    [] k = "linkedinUrl" -> LinkedinDefault(personalInfo)
    [] k = "professionalSummary" ->
         Str("Dynamic " \o FirstName(personalInfo.fullName) \o " with proven expertise ...")
    [] k = "professionalExperience" ->
         Arr("[{jobName: Professional Experience Inc., term: 2020 - Present, ...}]")
    [] k = "skills" -> Arr("[{skillName: Professional Competencies, ...}, ...]")
    [] k = "education" ->
         Arr("[{degree: Bachelor of Science, tenure: "
             \o ToString(year - 8) \o " - " \o ToString(year - 4) \o "}]")

\* validateAndFixResponse of the second version: [threw, rec]
validateAndFixResponse2(optimizedResumeData, personalInfo, year) ==
  IF PropThrows(optimizedResumeData)
  THEN [threw |-> TRUE, rec |-> NoRecord]
  ELSE [threw |-> FALSE,
        rec |-> [k \in Fields |->
          IF k \in ArrayFields
          THEN IF IsNonEmptyArray(GetProp(optimizedResumeData, k))
               THEN GetProp(optimizedResumeData, k)
               ELSE FieldDefault2(k, personalInfo, year)
          ELSE JsOr(GetProp(optimizedResumeData, k),
                    FieldDefault2(k, personalInfo, year))]]

\* parseResumeResponse of the second version, called in the given year
parseResumeResponse2(response, personalInfo, year) ==
  LET parsed == JSONParse(CleanResponse(response))
      optimizedResumeData ==
        IF parsed.ok THEN parsed ELSE createFallbackResponse2(personalInfo, year)
  IN validateAndFixResponse2(optimizedResumeData, personalInfo, year)

VARIABLES
  fbText,  \* the model text of the calls
  fbInfo,  \* the contact info of the calls
  now,     \* the year the clock shows
  fbOut    \* the records the calls returned, in the order of the calls

fbvars == <<fbText, fbInfo, now, fbOut>>

\* texts of every kind: no JSON, a JSON value, an object with a field absent
FallbackTexts ==
  OtherTexts \cup Wrappings(ObjectText([GoodObject EXCEPT !["education"] = Undef]))

InitFallback ==
  /\ fbText \in FallbackTexts
  /\ fbInfo \in Infos
  /\ now = 2026
  /\ fbOut = <<>>

\* one call of parseResumeResponse(fbText, fbInfo); two are made
CallParse ==
  /\ Len(fbOut) < 2
  /\ fbOut' = Append(fbOut, parseResumeResponse2(fbText, fbInfo, now))
  /\ UNCHANGED <<fbText, fbInfo, now>>

\* a new year begins
YearPasses ==
  /\ now + 1 \in Years
  /\ now' = now + 1
  /\ UNCHANGED <<fbText, fbInfo, fbOut>>

(***************************************************************************)
(* The completion client: one call of optimizeResume.                      *)
(***************************************************************************)

\* the largest this.maxRetries the model configures
MaxRetries == 3

\* texts a successful attempt may carry
AnswerTexts ==
  {ObjectText(GoodObject),
   <<FenceJson, Ws>> \o ObjectText(GoodObject) \o <<Ws, Fence>>,
   <<Ws>> \o ObjectText(GoodObject) \o <<Ws>>,
   ObjectText([GoodObject EXCEPT !["name"] = Num("5")]),
   ObjectText([GoodObject EXCEPT !["skills"] = Undef]),
   ObjectText([GoodObject EXCEPT !["professionalSummary"] = FencedStr]),
   <<Word, Ws, Word>>,
   <<LBrace, Member("name", Str("x"))>>,
   <<Value(Null)>>, <<Value(Num("5"))>>, <<Value(Str("x"))>>, <<Value(Arr("[x]"))>>}

\* candidates[0].content.parts[0].text of an envelope: a text, white space
\* only, the empty string, or no text member
EnvelopeTexts == AnswerTexts \cup {<<Ws>>, <<>>}

\* the member error of an envelope: none, null, or an object
ErrorMembers == {Undef, Null, Obj("{message}")}

\* the response envelopes: the member error, candidates[0] or not, its
\* finishReason, content.parts[0] or not, and the text
Envelopes ==
  [error : ErrorMembers,
   hasCandidate : BOOLEAN,
   finishReason : {"", "STOP", "SAFETY", "MAX_TOKENS"},
   hasPart : BOOLEAN,
   hasText : BOOLEAN,
   text : EnvelopeTexts]

\* variant: the text is handed on trimmed
parseResponseTrimmed(data) ==
  IF Truthy(data.error) \/ ~data.hasCandidate \/ data.finishReason = "SAFETY"
     \/ ~data.hasPart \/ ~data.hasText \/ Len(Trim(data.text)) = 0
  THEN [ok |-> FALSE, content |-> <<>>, message |-> "Error"]
  ELSE [ok |-> TRUE, content |-> Trim(data.text), message |-> ""]

\* variant: every finish reason but STOP is thrown on
parseResponseStopOnly(data) ==
  IF Truthy(data.error) \/ ~data.hasCandidate
     \/ (data.finishReason # "" /\ data.finishReason # "STOP")
     \/ ~data.hasPart \/ ~data.hasText \/ Len(Trim(data.text)) = 0
  THEN [ok |-> FALSE, content |-> <<>>, message |-> "Error"]
  ELSE [ok |-> TRUE, content |-> data.text, message |-> ""]

\* parseResponse: [ok, content, message]; ok = FALSE is the Error thrown
parseResponse(data) ==
  IF Truthy(data.error)
  THEN [ok |-> FALSE, content |-> <<>>, message |-> "Gemini API error: ..."]
  ELSE IF ~data.hasCandidate
  THEN [ok |-> FALSE, content |-> <<>>,
        message |-> "Invalid response format from Gemini API - no candidates"]
  ELSE IF data.finishReason # "" /\ data.finishReason # "STOP"
          /\ data.finishReason = "SAFETY"
  THEN [ok |-> FALSE, content |-> <<>>,
        message |-> "Response blocked due to safety concerns"]
  ELSE IF ~data.hasPart
  THEN [ok |-> FALSE, content |-> <<>>,
        message |-> "Invalid response format from Gemini API - no content parts"]
  ELSE IF ~data.hasText \/ data.text = <<>> \/ Len(Trim(data.text)) = 0
  THEN [ok |-> FALSE, content |-> <<>>, message |-> "Empty response from Gemini API"]
  ELSE [ok |-> TRUE, content |-> data.text, message |-> ""]

\* what makeHTTPRequest and response.json() can end with, other than an envelope
TransportFailures ==
  {"Request failed: ECONNRESET", "Request timeout after 30000ms",
   "HTTP 401: ...", "HTTP 403: ...", "HTTP 429: ...", "HTTP 500: ...",
   "HTTP 500: ... 429 ...", "Invalid JSON response: ..."}

\* the Error makeAPIRequest throws for an error caught from the transport
makeAPIRequestError(message) ==
  CASE message \in {"HTTP 403: ...", "HTTP 401: ..."} ->
         "API key invalid or insufficient permissions"
    [] message \in {"HTTP 429: ...", "HTTP 500: ... 429 ..."} ->
         "API rate limit exceeded"
    [] message = "Request timeout after 30000ms" ->
         "API request timeout - service may be overloaded"
    [] OTHER -> message

NumText(n) == <<"1", "2", "3", "4", "5", "6", "7", "8">>[n]

\* variant: a backoff that does not grow with the attempt
FixedBackoff(n) == 2

\* Math.pow(2, attempt)
RECURSIVE Pow2(_)
Pow2(n) == IF n = 0 THEN 1 ELSE 2 * Pow2(n - 1)

\* new AppError(message, statusCode, code); the message is kept in its pieces
AppError(message, statusCode, code) ==
  [message |-> message, statusCode |-> NumText(statusCode \div 100) \o "00", code |-> code]

NoError == [message |-> <<>>, statusCode |-> "", code |-> ""]

\* the AppError callGeminiAPI throws without an API key
KeyMissingError ==
  AppError(<<"Gemini API key not configured">>, 500, "AI_API_KEY_MISSING")

\* the AppError callGeminiAPI throws after the loop
ExhaustedError(retries, lastErrorMessage) ==
  AppError(<<"AI service failed after ", NumText(retries), " attempts: ",
             lastErrorMessage>>, 500, "AI_API_FAILED")

\* variant: the wrapping error does not carry the message of its cause
OptimizeErrorPlain(error) ==
  AppError(<<"Failed to optimize resume">>, 500, "RESUME_OPTIMIZATION_FAILED")

\* the catch block of optimizeResume: every error is wrapped
OptimizeError(error) ==
  AppError(<<"Failed to optimize resume: ">> \o error.message, 500,
           "RESUME_OPTIMIZATION_FAILED")

TypeErrorOfNull == [message |-> <<"Cannot read properties of null (reading 'name')">>,
                    statusCode |-> "", code |-> ""]

VARIABLES
  apiKey,       \* this.apiKey is set
  maxRetries,   \* this.maxRetries
  personalInfo, \* the contact info of the call
  aiPc,         \* where the call is
  attempt,      \* the loop variable of callGeminiAPI
  lastError,    \* lastError.message
  calls,        \* how often the transport was invoked
  failed,       \* how many attempts failed
  delays,       \* the backoff waits started, in milliseconds
  content,      \* the text callGeminiAPI returned
  aiOut,        \* the record optimizeResume returned
  aiError       \* the error optimizeResume threw

aivars ==
  <<apiKey, maxRetries, personalInfo, aiPc, attempt, lastError, calls, failed,
    delays, content, aiOut, aiError>>

InitAI ==
  /\ apiKey \in BOOLEAN
  /\ maxRetries \in 1..MaxRetries
  /\ personalInfo \in Infos
  /\ aiPc = "idle"
  /\ attempt = 0
  /\ lastError = ""
  /\ calls = 0
  /\ failed = 0
  /\ delays = <<>>
  /\ content = <<>>
  /\ aiOut = NoOutput
  /\ aiError = NoError

\* optimizeResume is called; callGeminiAPI checks the key and enters the loop
OptimizeResume ==
  /\ aiPc = "idle"
  /\ IF ~apiKey
     THEN /\ aiPc' = "threw"
          /\ aiError' = OptimizeError(KeyMissingError)
          /\ UNCHANGED attempt
     ELSE /\ aiPc' = "request"
          /\ attempt' = 1
          /\ UNCHANGED aiError
  /\ UNCHANGED <<apiKey, maxRetries, personalInfo, lastError, calls, failed,
                 delays, content, aiOut>>

\* makeAPIRequest hands the request to makeHTTPRequest
SendRequest ==
  /\ aiPc = "request"
  /\ calls' = calls + 1
  /\ aiPc' = "inflight"
  /\ UNCHANGED <<apiKey, maxRetries, personalInfo, attempt, lastError, failed,
                 delays, content, aiOut, aiError>>

\* variant: the loop gives up one attempt early (attempt === retries - 1)
AttemptFailedEarly(message) ==
  /\ lastError' = message
  /\ failed' = failed + 1
  /\ IF attempt >= maxRetries - 1
     THEN /\ aiPc' = "threw"
          /\ aiError' = OptimizeError(ExhaustedError(maxRetries, message))
          /\ UNCHANGED delays
     ELSE /\ aiPc' = "backoff"
          /\ delays' = Append(delays, Pow2(attempt) * 1000)
          /\ UNCHANGED aiError
  /\ UNCHANGED <<apiKey, maxRetries, personalInfo, attempt, calls, content, aiOut>>

\* variant: the loop goes on to the next attempt without awaiting the delay
AttemptFailedNoWait(message) ==
  /\ lastError' = message
  /\ failed' = failed + 1
  /\ IF attempt = maxRetries
     THEN /\ aiPc' = "threw"
          /\ aiError' = OptimizeError(ExhaustedError(maxRetries, message))
          /\ UNCHANGED <<delays, attempt>>
     ELSE /\ aiPc' = "request"
          /\ attempt' = attempt + 1
          /\ delays' = Append(delays, Pow2(attempt) * 1000)
          /\ UNCHANGED aiError
  /\ UNCHANGED <<apiKey, maxRetries, personalInfo, calls, content, aiOut>>

\* variant: the error thrown after the loop carries the cause of the attempt
\* before the last
AttemptFailedEarlierCause(message) ==
  /\ lastError' = message
  /\ failed' = failed + 1
  /\ IF attempt = maxRetries
     THEN /\ aiPc' = "threw"
          /\ aiError' = OptimizeError(ExhaustedError(maxRetries,
                           IF lastError = "" THEN message ELSE lastError))
          /\ UNCHANGED delays
     ELSE /\ aiPc' = "backoff"
          /\ delays' = Append(delays, Pow2(attempt) * 1000)
          /\ UNCHANGED aiError
  /\ UNCHANGED <<apiKey, maxRetries, personalInfo, attempt, calls, content, aiOut>>

\* the catch block of the loop of callGeminiAPI, and the throw after it
AttemptFailed(message) ==
  /\ lastError' = message
  /\ failed' = failed + 1
  /\ IF attempt = maxRetries
     THEN /\ aiPc' = "threw"
          /\ aiError' = OptimizeError(ExhaustedError(maxRetries, message))
          /\ UNCHANGED delays
     ELSE /\ aiPc' = "backoff"
          /\ delays' = Append(delays, Pow2(attempt) * 1000)
          /\ UNCHANGED aiError
  /\ UNCHANGED <<apiKey, maxRetries, personalInfo, attempt, calls, content, aiOut>>

\* variant: a rejected key is not retried
TransportFailsKeyFatal ==
  /\ aiPc = "inflight"
  /\ \E m \in TransportFailures :
       IF m \in {"HTTP 401: ...", "HTTP 403: ..."}
       THEN /\ lastError' = makeAPIRequestError(m)
            /\ failed' = failed + 1
            /\ aiPc' = "threw"
            /\ aiError' = OptimizeError(ExhaustedError(maxRetries, makeAPIRequestError(m)))
            /\ UNCHANGED <<apiKey, maxRetries, personalInfo, attempt, calls, delays,
                           content, aiOut>>
       ELSE AttemptFailed(makeAPIRequestError(m))

\* the transport rejects, or response.json() throws
TransportFails ==
  /\ aiPc = "inflight"
  /\ \E m \in TransportFailures : AttemptFailed(makeAPIRequestError(m))

\* what parseResponse makes of the envelopes
ParsedEnvelopes == {parseResponse(data) : data \in Envelopes}

\* the transport delivers a 2xx response with a JSON envelope
EnvelopeArrives ==
  /\ aiPc = "inflight"
  /\ \E r \in ParsedEnvelopes :
       IF r.ok
       THEN /\ content' = r.content
            /\ aiPc' = "parse"
            /\ UNCHANGED <<apiKey, maxRetries, personalInfo, attempt, lastError,
                           calls, failed, delays, aiOut, aiError>>
       ELSE AttemptFailed(r.message)

\* variant: the timer of the delay never fires
BackoffNeverElapses ==
  /\ aiPc = "backoff"
  /\ UNCHANGED aivars

\* the delay of the backoff elapses and the loop goes on
BackoffElapsed ==
  /\ aiPc = "backoff"
  /\ attempt' = attempt + 1
  /\ aiPc' = "request"
  /\ UNCHANGED <<apiKey, maxRetries, personalInfo, lastError, calls, failed,
                 delays, content, aiOut, aiError>>

\* optimizeResume: return this.parseResumeResponse(response, personalInfo)
RepairAnswer ==
  /\ aiPc = "parse"
  /\ LET r == parseResumeResponse(content, personalInfo)
     IN IF r.threw
        THEN /\ aiPc' = "threw"
             /\ aiError' = OptimizeError(TypeErrorOfNull)
             /\ UNCHANGED aiOut
        ELSE /\ aiPc' = "returned"
             /\ aiOut' = r
             /\ UNCHANGED aiError
  /\ UNCHANGED <<apiKey, maxRetries, personalInfo, attempt, lastError, calls,
                 failed, delays, content>>

(***************************************************************************)
(* parseResponse alone, on every envelope.                                 *)
(***************************************************************************)
VARIABLES
  eData,  \* the envelope response.json() returned
  eOut,   \* what parseResponse returned or threw
  ePc     \* where the call of parseResponse is

evars == <<eData, eOut, ePc>>

NoResult == [ok |-> FALSE, content |-> <<>>, message |-> ""]

InitEnvelope ==
  /\ eData \in Envelopes
  /\ eOut = NoResult
  /\ ePc = "input"

\* one call of parseResponse(data)
ParseEnvelope ==
  /\ ePc = "input"
  /\ eOut' = parseResponse(eData)
  /\ ePc' = "returned"
  /\ UNCHANGED eData

(***************************************************************************)
(* Several calls of optimizeResume in flight at once.  The module exports  *)
(* one AIService; its fields are set by the constructor and only read.     *)
(* attempt and lastError are locals of callGeminiAPI: each call has its    *)
(* own.  A call is a record; seen is the list of the backend's answers to  *)
(* the call, as parseResponse and makeAPIRequest hand them on.             *)
(***************************************************************************)
Callers == {1, 2}

\* the contact infos of the callers
CallInfos == {i \in Infos : i.phone = Undef}

\* the answers to an attempt: rate limit, blocked candidate, a good text
CallResponses ==
  {[ok |-> FALSE, content |-> <<>>, message |-> makeAPIRequestError("HTTP 429: ...")]}
  \cup {r \in ParsedEnvelopes :
          IF r.ok THEN r.content = ObjectText(GoodObject)
          ELSE r.message = "Response blocked due to safety concerns"}

VARIABLES
  service,  \* the fields of the exported AIService: apiKey set, maxRetries
  call      \* caller -> the call of optimizeResume it makes

cvars == <<service, call>>

NewCall(info) ==
  [pc |-> "idle", info |-> info, attempt |-> 0, lastError |-> "", sent |-> 0,
   failed |-> 0, delays |-> <<>>, seen |-> <<>>, out |-> NoOutput, error |-> NoError]

InitCalls ==
  /\ service \in [apiKey : BOOLEAN, maxRetries : 1..MaxRetries]
  /\ call \in {[c \in Callers |-> NewCall(infos[c])] : infos \in [Callers -> CallInfos]}

\* optimizeResume is called; callGeminiAPI checks the key and enters the loop
CallOptimize(c) ==
  /\ call[c].pc = "idle"
  /\ call' = [call EXCEPT ![c] =
       IF ~service.apiKey
       THEN [@ EXCEPT !.pc = "threw", !.error = OptimizeError(KeyMissingError)]
       ELSE [@ EXCEPT !.pc = "request", !.attempt = 1]]
  /\ UNCHANGED service

\* makeAPIRequest hands the request of the call to makeHTTPRequest
CallSend(c) ==
  /\ call[c].pc = "request"
  /\ call' = [call EXCEPT ![c].pc = "inflight", ![c].sent = @ + 1]
  /\ UNCHANGED service

\* the catch block of the loop and the throw after it, on the locals of a call
AfterFailure(r, response) ==
  IF r.attempt = service.maxRetries
  THEN [r EXCEPT !.seen = Append(@, response), !.lastError = response.message,
                 !.failed = @ + 1, !.pc = "threw",
                 !.error = OptimizeError(ExhaustedError(service.maxRetries,
                                                        response.message))]
  ELSE [r EXCEPT !.seen = Append(@, response), !.lastError = response.message,
                 !.failed = @ + 1, !.pc = "backoff",
                 !.delays = Append(@, Pow2(r.attempt) * 1000)]

\* variant: attempt is a field of the service, counted up for every call in
\* its loop when an attempt of any call fails
CallFailsShared(c) ==
  /\ call[c].pc = "inflight"
  /\ \E response \in CallResponses :
       /\ ~response.ok
       /\ call' = [d \in Callers |->
            IF d = c THEN AfterFailure(call[c], response)
            ELSE IF call[d].pc \in {"request", "inflight", "backoff"}
            THEN [call[d] EXCEPT !.attempt = @ + 1]
            ELSE call[d]]
  /\ UNCHANGED service

\* the attempt of a call fails
CallFails(c) ==
  /\ call[c].pc = "inflight"
  /\ \E response \in CallResponses :
       /\ ~response.ok
       /\ call' = [call EXCEPT ![c] = AfterFailure(@, response)]
  /\ UNCHANGED service

\* the attempt of a call brings a text: callGeminiAPI returns it
CallAnswers(c) ==
  /\ call[c].pc = "inflight"
  /\ \E response \in CallResponses :
       /\ response.ok
       /\ call' = [call EXCEPT ![c].seen = Append(@, response), ![c].pc = "parse"]
  /\ UNCHANGED service

\* the delay of the backoff of a call elapses and its loop goes on
CallWaited(c) ==
  /\ call[c].pc = "backoff"
  /\ call' = [call EXCEPT ![c].pc = "request", ![c].attempt = @ + 1]
  /\ UNCHANGED service

\* optimizeResume of a call: return this.parseResumeResponse(response, personalInfo)
CallRepairs(c) ==
  /\ call[c].pc = "parse"
  /\ LET r == parseResumeResponse(call[c].seen[Len(call[c].seen)].content, call[c].info)
     IN call' = [call EXCEPT ![c] =
          IF r.threw
          THEN [@ EXCEPT !.pc = "threw", !.error = OptimizeError(TypeErrorOfNull)]
          ELSE [@ EXCEPT !.pc = "returned", !.out = r]]
  /\ UNCHANGED service

(***************************************************************************)
(* The profile and template routes and their is_default flag.              *)
(* The two routers run the same statements, each on its own table          *)
(* (user_profiles, resume_templates), and no statement touches both: the   *)
(* model holds one such table.  A row is known by its uuid; uuids are      *)
(* given in the order of insertion, which is the order of created_at.      *)
(* Statements go through dbUtils to one pooled connection.                 *)
(***************************************************************************)

\* how many rows are ever inserted in one run
MaxRows == 2

\* how many requests are started while two clients act at the same time
MaxRequests == 3

Users == {"ann", "bob"}
Clients == {1, 2}
Uuids == 1..MaxRows

NoRow == [live |-> FALSE, user |-> "", isDefault |-> FALSE]
Row(user, isDefault) == [live |-> TRUE, user |-> user, isDefault |-> isDefault]

\* variant: ... WHERE <uuid column> = uuid, without AND user_id = user
OwnedByAnyone(r, uuid, user) == r[uuid].live

\* ... WHERE <uuid column> = uuid AND user_id = user
Owned(r, uuid, user) == r[uuid].live /\ r[uuid].user = user

\* UPDATE t SET is_default = FALSE WHERE user_id = user [AND uuid != except]
UnsetDefaults(r, user, except) ==
  [i \in DOMAIN r |->
     IF r[i].live /\ r[i].user = user /\ i # except
     THEN [r[i] EXCEPT !.isDefault = FALSE]
     ELSE r[i]]

\* UPDATE t SET ..., is_default = flag WHERE uuid = uuid AND user_id = user
SetDefaultFlag(r, uuid, user, flag) ==
  [i \in DOMAIN r |->
     IF i = uuid /\ Owned(r, i, user) THEN [r[i] EXCEPT !.isDefault = flag] ELSE r[i]]

\* result.rowCount of a statement WHERE uuid = uuid AND user_id = user
Changes(r, uuid, user) == IF Owned(r, uuid, user) THEN 1 ELSE 0

\* SELECT COUNT(*) FROM t WHERE user_id = user
CountRows(r, user) == Cardinality({i \in DOMAIN r : r[i].live /\ r[i].user = user})

\* DELETE FROM t WHERE uuid = uuid AND user_id = user
DeleteRow(r, uuid, user) ==
  [i \in DOMAIN r |-> IF i = uuid /\ Owned(r, i, user) THEN NoRow ELSE r[i]]

\* INSERT INTO t (..., user_id, ..., is_default) VALUES (...)
InsertRow(r, uuid, user, flag) == [r EXCEPT ![uuid] = Row(user, flag)]

VARIABLES
  rows,       \* uuid -> row, as the pooled connection sees the table
  nextUuid,   \* the uuid of the next row inserted
  txnOpen,    \* BEGIN was run on the connection and no COMMIT or ROLLBACK since
  txnAborted, \* a statement failed within the open transaction
  txnSnap,    \* the table when the open transaction began
  req,        \* client -> the request it has in hand
  started     \* how many requests were started

dbvars ==
  <<rows, nextUuid, txnOpen, txnAborted, txnSnap, req, started>>

\* the is_default column of the table
Flags(r) == [i \in Uuids |-> r[i].live /\ r[i].isDefault]

NoFlags == [i \in Uuids |-> FALSE]

\* a request: its place in the handler, its route, the user of the token, the
\* uuid of the path, isDefault of the body, what the handler read, its answer;
\* before: the is_default column as an update or set-default request found it
Request(pc, op, user, uuid, isDefault) ==
  [pc |-> pc, op |-> op, user |-> user, uuid |-> uuid, isDefault |-> isDefault,
   wasDefault |-> FALSE, count |-> 0, status |-> 0, before |-> NoFlags]

NoRequest == Request("idle", "", "", 0, FALSE)

EmptyTable == [i \in Uuids |-> NoRow]

InitDB ==
  /\ rows = EmptyTable
  /\ nextUuid = 1
  /\ txnOpen = FALSE
  /\ txnAborted = FALSE
  /\ txnSnap = EmptyTable
  /\ req = [c \in Clients |-> NoRequest]
  /\ started = 0

InHand(c) == req[c].pc \notin {"idle", "done"}

\* a statement fails when the database says so; within an aborted
\* transaction every statement fails
Outcomes == IF txnOpen /\ txnAborted THEN {FALSE} ELSE BOOLEAN

\* the transaction is aborted by a failing statement
Failing == txnAborted' = txnOpen

\* the handler answers with status and is done; its locals go out of scope
Answer(c, status) ==
  req' = [req EXCEPT ![c] = [Request("done", req[c].op, "", 0, FALSE)
                               EXCEPT !.status = status]]

Goto(c, pc) == req' = [req EXCEPT ![c].pc = pc]

\* a request enters its handler: token verified, path and body validated
Begin(c, r) ==
  /\ ~InHand(c)
  /\ req' = [req EXCEPT ![c] = r]
  /\ UNCHANGED <<rows, nextUuid, txnOpen, txnAborted, txnSnap>>

\* the inserts the requests in hand have still to make
PendingInserts ==
  Cardinality({c \in Clients : InHand(c) /\ req[c].op \in {"create", "duplicate"}})

\* POST /: create
StartCreate(c) ==
  /\ nextUuid + PendingInserts <= MaxRows
  /\ \E u \in Users, flag \in BOOLEAN :
       Begin(c, Request(IF flag THEN "create-unset" ELSE "create-insert",
                        "create", u, 0, flag))

\* PUT /:uuid: update
StartUpdate(c) ==
  \E u \in Users, id \in Uuids, flag \in BOOLEAN :
    Begin(c, [Request(IF flag THEN "update-unset" ELSE "update-row",
                      "update", u, id, flag)
                EXCEPT !.before = Flags(rows)])

\* DELETE /:uuid
StartDelete(c) ==
  \E u \in Users, id \in Uuids : Begin(c, Request("delete-get", "delete", u, id, FALSE))

\* PATCH /:uuid/set-default
StartSetDefault(c) ==
  \E u \in Users, id \in Uuids :
    Begin(c, [Request("default-get", "set-default", u, id, FALSE)
                EXCEPT !.before = Flags(rows)])

\* POST /:uuid/duplicate
StartDuplicate(c) ==
  /\ nextUuid + PendingInserts <= MaxRows
  /\ \E u \in Users, id \in Uuids :
       Begin(c, Request("duplicate-get", "duplicate", u, id, FALSE))

\* create: UPDATE t SET is_default = FALSE WHERE user_id = $1
CreateUnset(c) ==
  /\ req[c].pc = "create-unset"
  /\ \E ok \in Outcomes :
       IF ok
       THEN /\ rows' = UnsetDefaults(rows, req[c].user, 0)
            /\ Goto(c, "create-insert")
            /\ UNCHANGED txnAborted
       ELSE /\ Answer(c, 500)
            /\ Failing
            /\ UNCHANGED rows
  /\ UNCHANGED <<nextUuid, txnOpen, txnSnap, started>>

\* create: INSERT the row with is_default as validated, answer 201
CreateInsert(c) ==
  /\ req[c].pc = "create-insert"
  /\ \E ok \in Outcomes :
       IF ok
       THEN /\ rows' = InsertRow(rows, nextUuid, req[c].user, req[c].isDefault)
            /\ nextUuid' = nextUuid + 1
            /\ Answer(c, 201)
            /\ UNCHANGED txnAborted
       ELSE /\ Answer(c, 500)
            /\ Failing
            /\ UNCHANGED <<rows, nextUuid>>
  /\ UNCHANGED <<txnOpen, txnSnap, started>>

\* variant: update goes on to its UPDATE without unsetting the other defaults
UpdateSkipUnset(c) ==
  /\ req[c].pc = "update-unset"
  /\ Goto(c, "update-row")
  /\ UNCHANGED <<rows, nextUuid, txnOpen, txnAborted, txnSnap, started>>

\* update: UPDATE t SET is_default = FALSE WHERE user_id = $1 AND uuid != $2
UpdateUnset(c) ==
  /\ req[c].pc = "update-unset"
  /\ \E ok \in Outcomes :
       IF ok
       THEN /\ rows' = UnsetDefaults(rows, req[c].user, req[c].uuid)
            /\ Goto(c, "update-row")
            /\ UNCHANGED txnAborted
       ELSE /\ Answer(c, 500)
            /\ Failing
            /\ UNCHANGED rows
  /\ UNCHANGED <<nextUuid, txnOpen, txnSnap, started>>

\* update: UPDATE t SET ..., is_default = $7 WHERE uuid = $8 AND user_id = $9,
\* 404 when no row changed
UpdateRow(c) ==
  /\ req[c].pc = "update-row"
  /\ \E ok \in Outcomes :
       IF ok
       THEN /\ rows' = SetDefaultFlag(rows, req[c].uuid, req[c].user, req[c].isDefault)
            /\ Answer(c, IF Changes(rows, req[c].uuid, req[c].user) = 0 THEN 404 ELSE 200)
            /\ UNCHANGED txnAborted
       ELSE /\ Answer(c, 500)
            /\ Failing
            /\ UNCHANGED rows
  /\ UNCHANGED <<nextUuid, txnOpen, txnSnap, started>>

\* delete: SELECT is_default ... WHERE uuid = $1 AND user_id = $2, 404 when none
DeleteGet(c) ==
  /\ req[c].pc = "delete-get"
  /\ \E ok \in Outcomes :
       IF ok
       THEN /\ IF ~Owned(rows, req[c].uuid, req[c].user)
               THEN Answer(c, 404)
               ELSE req' = [req EXCEPT
                      ![c].wasDefault = rows[req[c].uuid].isDefault,
                      ![c].pc = IF rows[req[c].uuid].isDefault
                                THEN "delete-count" ELSE "delete-row"]
            /\ UNCHANGED txnAborted
       ELSE /\ Answer(c, 500)
            /\ Failing
  /\ UNCHANGED <<rows, nextUuid, txnOpen, txnSnap, started>>

\* delete of a default: SELECT COUNT(*) ... WHERE user_id = $1
DeleteCount(c) ==
  /\ req[c].pc = "delete-count"
  /\ \E ok \in Outcomes :
       IF ok
       THEN /\ req' = [req EXCEPT
                 ![c].count = CountRows(rows, req[c].user),
                 ![c].pc = IF CountRows(rows, req[c].user) > 1
                           THEN "delete-promote" ELSE "delete-row"]
            /\ UNCHANGED txnAborted
       ELSE /\ Answer(c, 500)
            /\ Failing
  /\ UNCHANGED <<rows, nextUuid, txnOpen, txnSnap, started>>

\* delete of a default with other rows: UPDATE t SET is_default = TRUE
\* WHERE ... ORDER BY created_at ASC LIMIT 1.  The UPDATE of PostgreSQL takes
\* no ORDER BY and no LIMIT: the server rejects the statement, pool.query
\* rejects, dbUtils.run throws on and the request is answered 500.
DeletePromote(c) ==
  /\ req[c].pc = "delete-promote"
  /\ Answer(c, 500)
  /\ Failing
  /\ UNCHANGED <<rows, nextUuid, txnOpen, txnSnap, started>>

\* delete: DELETE ... WHERE uuid = $1 AND user_id = $2, 404 when no row changed
DeleteDelete(c) ==
  /\ req[c].pc = "delete-row"
  /\ \E ok \in Outcomes :
       IF ok
       THEN /\ rows' = DeleteRow(rows, req[c].uuid, req[c].user)
            /\ Answer(c, IF Changes(rows, req[c].uuid, req[c].user) = 0 THEN 404 ELSE 200)
            /\ UNCHANGED txnAborted
       ELSE /\ Answer(c, 500)
            /\ Failing
            /\ UNCHANGED rows
  /\ UNCHANGED <<nextUuid, txnOpen, txnSnap, started>>

\* set-default: SELECT id ... WHERE uuid = $1 AND user_id = $2, 404 when none
DefaultGet(c) ==
  /\ req[c].pc = "default-get"
  /\ \E ok \in Outcomes :
       IF ok
       THEN /\ IF Owned(rows, req[c].uuid, req[c].user)
               THEN Goto(c, "default-begin")
               ELSE Answer(c, 404)
            /\ UNCHANGED txnAborted
       ELSE /\ Answer(c, 500)
            /\ Failing
  /\ UNCHANGED <<rows, nextUuid, txnOpen, txnSnap, started>>

\* set-default: dbUtils.beginTransaction(), before the try block.  BEGIN
\* within an open transaction changes nothing.
DefaultBegin(c) ==
  /\ req[c].pc = "default-begin"
  /\ \E ok \in Outcomes :
       IF ok
       THEN /\ txnOpen' = TRUE
            /\ txnSnap' = IF txnOpen THEN txnSnap ELSE rows
            /\ Goto(c, "default-unset")
            /\ UNCHANGED txnAborted
       ELSE /\ Answer(c, 500)
            /\ Failing
            /\ UNCHANGED <<txnOpen, txnSnap>>
  /\ UNCHANGED <<rows, nextUuid, started>>

\* set-default: UPDATE t SET is_default = FALSE WHERE user_id = $1
DefaultUnset(c) ==
  /\ req[c].pc = "default-unset"
  /\ \E ok \in Outcomes :
       IF ok
       THEN /\ rows' = UnsetDefaults(rows, req[c].user, 0)
            /\ Goto(c, "default-set")
            /\ UNCHANGED txnAborted
       ELSE /\ Goto(c, "default-rollback")
            /\ Failing
            /\ UNCHANGED rows
  /\ UNCHANGED <<nextUuid, txnOpen, txnSnap, started>>

\* set-default: UPDATE t SET is_default = TRUE WHERE uuid = $1 AND user_id = $2
DefaultSet(c) ==
  /\ req[c].pc = "default-set"
  /\ \E ok \in Outcomes :
       IF ok
       THEN /\ rows' = SetDefaultFlag(rows, req[c].uuid, req[c].user, TRUE)
            /\ Goto(c, "default-commit")
            /\ UNCHANGED txnAborted
       ELSE /\ Goto(c, "default-rollback")
            /\ Failing
            /\ UNCHANGED rows
  /\ UNCHANGED <<nextUuid, txnOpen, txnSnap, started>>

\* set-default: dbUtils.commit().  COMMIT of an aborted transaction rolls it
\* back and raises no error; a COMMIT that fails has lost the connection, and
\* the server rolls the transaction back.
DefaultCommit(c) ==
  /\ req[c].pc = "default-commit"
  /\ \E ok \in BOOLEAN :
       /\ rows' = IF txnOpen /\ (txnAborted \/ ~ok) THEN txnSnap ELSE rows
       /\ IF ok THEN Answer(c, 200) ELSE Goto(c, "default-rollback")
  /\ txnOpen' = FALSE
  /\ txnAborted' = FALSE
  /\ txnSnap' = EmptyTable
  /\ UNCHANGED <<nextUuid, started>>

\* variant: the catch block throws the error on and runs no ROLLBACK; the
\* updates made so far stay
DefaultNoRollback(c) ==
  /\ req[c].pc = "default-rollback"
  /\ txnOpen' = FALSE
  /\ txnAborted' = FALSE
  /\ txnSnap' = EmptyTable
  /\ Answer(c, 500)
  /\ UNCHANGED <<rows, nextUuid, started>>

\* set-default, catch block: dbUtils.rollback(), then the error is thrown on.
\* Whether ROLLBACK is answered or the connection is lost, the transaction ends.
DefaultRollback(c) ==
  /\ req[c].pc = "default-rollback"
  /\ rows' = IF txnOpen THEN txnSnap ELSE rows
  /\ txnOpen' = FALSE
  /\ txnAborted' = FALSE
  /\ txnSnap' = EmptyTable
  /\ Answer(c, 500)
  /\ UNCHANGED <<nextUuid, started>>

\* duplicate: SELECT * ... WHERE uuid = $1 AND user_id = $2, 404 when none
DuplicateGet(c) ==
  /\ req[c].pc = "duplicate-get"
  /\ \E ok \in Outcomes :
       IF ok
       THEN /\ IF Owned(rows, req[c].uuid, req[c].user)
               THEN Goto(c, "duplicate-insert")
               ELSE Answer(c, 404)
            /\ UNCHANGED txnAborted
       ELSE /\ Answer(c, 500)
            /\ Failing
  /\ UNCHANGED <<rows, nextUuid, txnOpen, txnSnap, started>>

\* duplicate: INSERT the copy with is_default false, answer 201
DuplicateInsert(c) ==
  /\ req[c].pc = "duplicate-insert"
  /\ \E ok \in Outcomes :
       IF ok
       THEN /\ rows' = InsertRow(rows, nextUuid, req[c].user, FALSE)
            /\ nextUuid' = nextUuid + 1
            /\ Answer(c, 201)
            /\ UNCHANGED txnAborted
       ELSE /\ Answer(c, 500)
            /\ Failing
            /\ UNCHANGED <<rows, nextUuid>>
  /\ UNCHANGED <<txnOpen, txnSnap, started>>

(***************************************************************************)
(* The transport: makeRequest of src/src/utils/httpClient.js with the      *)
(* client that initializeHttpClient binds when the module is loaded, and   *)
(* makeHTTPRequest of aiService.js, which goes to https.request itself.    *)
(* Time is counted in ticks.  The timer that https.request arms with       *)
(* setTimeout runs on the socket: every event on the socket starts it      *)
(* again.                                                                  *)
(***************************************************************************)

\* timeout of a request, in ticks
TimeoutTicks == 2

\* how long the clock of one request is followed, in ticks
MaxElapsed == 4

\* how many chunks a response body has at most
MaxChunks == 2

\* the candidates in the order initializeHttpClient tries them
Candidates == <<"node-fetch", "fetch", "https">>

NoClient == "null"

RECURSIVE FirstOf(_, _)
FirstOf(avail, i) ==
  IF i > Len(Candidates) THEN NoClient
  ELSE IF Candidates[i] \in avail THEN Candidates[i]
  ELSE FirstOf(avail, i + 1)

RECURSIVE LastOf(_, _)
LastOf(avail, i) ==
  IF i = 0 THEN NoClient
  ELSE IF Candidates[i] \in avail THEN Candidates[i]
  ELSE LastOf(avail, i - 1)

\* variant: the candidates are tried from the other end
initializeHttpClientReversed(avail) == LastOf(avail, Len(Candidates))

\* httpClient after the module is loaded, avail being the candidates that
\* initialise without error
initializeHttpClient(avail) == FirstOf(avail, 1)

Statuses == {200, 299, 300, 500}

\* variant: every status below 500 counts as ok
StatusOkBelow500(status) == status >= 200 /\ status < 500

\* res.statusCode >= 200 && res.statusCode < 300
StatusOk(status) == status >= 200 /\ status < 300

Chunk == "chunk"

\* HTTP ${status}: ${text}
HttpErrorMessage(status, text) == <<"HTTP ", ToString(status), ": ">> \o text

\* Request timeout after ${ms}ms
TimeoutMessage == <<"Request timeout after ", ToString(TimeoutTicks), "ms">>

\* HTTP request to ${url} failed: ${error.message}
Enhanced(message) == <<"HTTP request to ", "url", " failed: ">> \o message

NoOutcome == [kind |-> "none", status |-> 0, body |-> <<>>, message |-> <<>>]

ResponseOf(status, body) ==
  [kind |-> "response", status |-> status, body |-> body, message |-> <<>>]

ErrorOf(message) ==
  [kind |-> "error", status |-> 0, body |-> <<>>, message |-> message]

VARIABLES
  available,   \* the candidates that initialise without error in this process
  httpClient,  \* the module variable httpClient
  tr           \* the transport call in hand

tvars == <<available, httpClient, tr>>

NoCall ==
  [pc |-> "idle", api |-> "none", via |-> NoClient, network |-> FALSE,
   status |-> 0, sent |-> <<>>, data |-> <<>>, idle |-> 0, elapsed |-> 0,
   fired |-> FALSE, complete |-> FALSE, outcome |-> NoOutcome]

InitTransport ==
  /\ available \in SUBSET {Candidates[i] : i \in 1..Len(Candidates)}
  /\ httpClient = initializeHttpClient(available)
  /\ tr = NoCall

\* the promise of a call keeps its first settlement; an error that passes
\* the catch block of makeRequest is wrapped there
Settle(t, o) ==
  IF t.outcome # NoOutcome THEN t
  ELSE IF o.kind = "error" /\ t.api = "makeRequest"
       THEN [t EXCEPT !.outcome = ErrorOf(Enhanced(o.message))]
       ELSE [t EXCEPT !.outcome = o]

\* makeRequest up to the call of httpClient
MakeRequest ==
  /\ tr.pc = "idle"
  /\ IF httpClient = NoClient
     THEN tr' = [tr EXCEPT !.pc = "closed", !.api = "makeRequest",
                           !.outcome = ErrorOf(<<"HTTP client not initialized">>)]
     ELSE tr' = [tr EXCEPT !.pc = "connecting", !.api = "makeRequest",
                           !.via = httpClient, !.network = TRUE]
  /\ UNCHANGED <<available, httpClient>>

\* makeHTTPRequest up to req.end(), or the catch block when new URL throws
MakeHTTPRequest ==
  /\ tr.pc = "idle"
  /\ \E urlValid \in BOOLEAN :
       IF urlValid
       THEN tr' = [tr EXCEPT !.pc = "connecting", !.api = "makeHTTPRequest",
                             !.via = "direct", !.network = TRUE]
       ELSE tr' = Settle([tr EXCEPT !.pc = "closed", !.api = "makeHTTPRequest"],
                         ErrorOf(<<"Request setup failed: ", "Invalid URL">>))
  /\ UNCHANGED <<available, httpClient>>

OnSocket(t) == t.via \in {"https", "direct"}

\* a tick passes with nothing on the socket
Tick ==
  /\ tr.pc \in {"connecting", "receiving"}
  /\ OnSocket(tr)
  /\ tr.idle < TimeoutTicks
  /\ tr.elapsed < MaxElapsed
  /\ tr' = [tr EXCEPT !.idle = @ + 1, !.elapsed = @ + 1]
  /\ UNCHANGED <<available, httpClient>>

\* the status line and headers arrive: the callback of https.request runs
ResponseHeaders ==
  /\ tr.pc = "connecting"
  /\ OnSocket(tr)
  /\ \E status \in Statuses, chunks \in 0..MaxChunks :
       tr' = [tr EXCEPT !.pc = "receiving", !.status = status,
                        !.sent = [i \in 1..chunks |-> Chunk], !.idle = 0]
  /\ UNCHANGED <<available, httpClient>>

\* res.on('data'): data += chunk
ResponseData ==
  /\ tr.pc = "receiving"
  /\ Len(tr.data) < Len(tr.sent)
  /\ tr' = [tr EXCEPT !.data = Append(@, tr.sent[Len(tr.data) + 1]), !.idle = 0]
  /\ UNCHANGED <<available, httpClient>>

\* res.on('end'): makeHTTPRequest rejects a status that is not ok; the https
\* client of httpClient.js resolves, and makeRequest throws for it
ResponseEnd ==
  /\ tr.pc = "receiving"
  /\ Len(tr.data) = Len(tr.sent)
  /\ tr' = Settle([tr EXCEPT !.pc = "closed", !.complete = TRUE],
                  IF StatusOk(tr.status)
                  THEN ResponseOf(tr.status, tr.data)
                  ELSE ErrorOf(HttpErrorMessage(tr.status, tr.data)))
  /\ UNCHANGED <<available, httpClient>>

\* req.on('timeout'): req.destroy() and reject
RequestTimeout ==
  /\ tr.pc \in {"connecting", "receiving"}
  /\ OnSocket(tr)
  /\ tr.idle = TimeoutTicks
  /\ tr' = Settle([tr EXCEPT !.pc = "destroyed", !.fired = TRUE],
                  ErrorOf(TimeoutMessage))
  /\ UNCHANGED <<available, httpClient>>

\* req.on('error'): the connection fails, or the destroyed request hangs up
RequestError ==
  /\ tr.pc \in {"connecting", "receiving", "destroyed"}
  /\ OnSocket(tr)
  /\ tr' = Settle([tr EXCEPT !.pc = "closed"],
                  ErrorOf(<<"Request failed: ",
                            IF tr.pc = "destroyed" THEN "socket hang up"
                            ELSE "ECONNRESET">>))
  /\ UNCHANGED <<available, httpClient>>

\* the promise of node-fetch or fetch settles; makeRequest reads the body
\* of a response that is not ok with response.text(), which may reject
FetchSettles ==
  /\ tr.pc = "connecting"
  /\ ~OnSocket(tr)
  /\ \/ tr' = Settle([tr EXCEPT !.pc = "closed"], ErrorOf(<<"fetch failed">>))
     \/ \E status \in Statuses, chunks \in 0..MaxChunks, readable \in BOOLEAN :
          LET body == [i \in 1..chunks |-> Chunk]
              errorText == IF readable THEN body
                           ELSE <<"HTTP ", ToString(status)>>
          IN  tr' = Settle([tr EXCEPT !.pc = "closed", !.status = status,
                                      !.complete = TRUE, !.sent = body,
                                      !.data = IF readable THEN body ELSE <<>>],
                           IF StatusOk(status)
                           THEN ResponseOf(status, body)
                           ELSE ErrorOf(HttpErrorMessage(status, errorText)))
  /\ UNCHANGED <<available, httpClient>>

\* the caller has its result and the next call may start
CallEnds ==
  /\ tr.pc = "closed"
  /\ tr' = NoCall
  /\ UNCHANGED <<available, httpClient>>

(***************************************************************************)
(* The resume routes of src/unnamed/part_003 (put, delete, optimize) and   *)
(* the optimize route of legacyRoutes.js, which runs the same statements.  *)
(* A resume row is known by its uuid.  The statements still carry the ?    *)
(* placeholders of SQLite; whether the server takes a statement is left    *)
(* open here, so that both answers are covered.                            *)
(***************************************************************************)

ResumeIds == {"r1", "r2"}

\* a uuid of the right form that is the uuid of no row
NoSuchResume == "r9"

Resume(user, status, saved) ==
  [live |-> TRUE, user |-> user, status |-> status, content |-> saved]

NoResume == [live |-> FALSE, user |-> "", status |-> "", content |-> ""]

\* ... WHERE resume_uuid = ? AND user_id = ?
OwnedResume(t, uuid, user) ==
  uuid \in ResumeIds /\ t[uuid].live /\ t[uuid].user = user

\* UPDATE resumes SET optimized_resume_content = ?, status = ? WHERE
\* resume_uuid = ?: the variant without AND user_id = ?
UpdateAnyResume(t, uuid, user, status, saved) ==
  [i \in ResumeIds |->
     IF i = uuid /\ t[i].live
     THEN [t[i] EXCEPT !.status = status, !.content = saved] ELSE t[i]]

\* UPDATE resumes SET optimized_resume_content = ?, status = ? WHERE
\* resume_uuid = ? AND user_id = ?
UpdateResume(t, uuid, user, status, saved) ==
  [i \in ResumeIds |->
     IF i = uuid /\ OwnedResume(t, uuid, user)
     THEN [t[i] EXCEPT !.status = status, !.content = saved] ELSE t[i]]

\* DELETE FROM resumes WHERE resume_uuid = ? AND user_id = ?
DeleteResume(t, uuid, user) ==
  [i \in ResumeIds |->
     IF i = uuid /\ OwnedResume(t, uuid, user) THEN NoResume ELSE t[i]]

VARIABLES
  resumes,   \* uuid -> row of the table resumes
  rreq       \* the request on the resume routes in hand

rvars == <<resumes, rreq>>

\* a request: its place in the handler, its route, the user of the token, and
\* of its body: resumeUuid ("": none given), saveAsNew, whether jobDescription
\* is given, whether personalInfo has a full name and an email, the profile
\* named by profileUuid, whether a template is to be read; then whether
\* aiService.optimizeResume has returned a record, and the answer
ResumeRequest(pc, op, user, resumeUuid) ==
  [pc |-> pc, op |-> op, user |-> user, resumeUuid |-> resumeUuid,
   saveAsNew |-> FALSE, jobDescription |-> FALSE, info |-> FALSE,
   profile |-> "none", template |-> FALSE, aiReturned |-> FALSE, status |-> 0]

NoResumeRequest == ResumeRequest("idle", "", "", "")

InitResume ==
  /\ resumes = [i \in ResumeIds |->
                  Resume(IF i = "r1" THEN "ann" ELSE "bob", "draft", "")]
  /\ rreq = NoResumeRequest

ResumeInHand == rreq.pc \notin {"idle", "done"}

\* the handler answers with status
ResumeAnswer(r, status) == [r EXCEPT !.pc = "done", !.status = status]

\* optimize: the check of finalPersonalInfo, then the call of the AI service
CheckInfo(r) ==
  IF r.info THEN [r EXCEPT !.pc = "optimize-ai"] ELSE ResumeAnswer(r, 400)

\* optimize: the template is read when templateUuid is given and no resume
\* text is
AfterProfile(r) ==
  IF r.template THEN [r EXCEPT !.pc = "optimize-template"] ELSE CheckInfo(r)

\* POST /optimize, POST /optimize-resume-json: up to the first await
StartOptimize ==
  /\ rreq.pc = "idle"
  /\ \E u \in Users, id \in {""} \cup ResumeIds \cup {NoSuchResume},
        saveAsNew, jobDescription, info, template \in BOOLEAN,
        profile \in {"none", "own", "missing"} :
       LET r == [ResumeRequest("optimize-profile", "optimize", u, id)
                   EXCEPT !.saveAsNew = saveAsNew,
                          !.jobDescription = jobDescription,
                          !.info = info, !.profile = profile,
                          !.template = template]
       IN  rreq' = IF ~jobDescription THEN ResumeAnswer(r, 400)
                   ELSE IF profile # "none" THEN r
                   ELSE AfterProfile(r)
  /\ UNCHANGED resumes

\* optimize: SELECT * FROM user_profiles WHERE profile_uuid = ? AND user_id = ?;
\* a profile that is found gives finalPersonalInfo its name and email
OptimizeGetProfile ==
  /\ rreq.pc = "optimize-profile"
  /\ \E ok \in BOOLEAN :
       rreq' = IF ~ok THEN ResumeAnswer(rreq, 500)
               ELSE AfterProfile([rreq EXCEPT
                      !.info = IF rreq.profile = "own" THEN TRUE ELSE @])
  /\ UNCHANGED resumes

\* optimize: SELECT * FROM resume_templates WHERE template_uuid = ? AND user_id = ?
OptimizeGetTemplate ==
  /\ rreq.pc = "optimize-template"
  /\ \E ok \in BOOLEAN :
       rreq' = IF ~ok THEN ResumeAnswer(rreq, 500) ELSE CheckInfo(rreq)
  /\ UNCHANGED resumes

\* optimize: await aiService.optimizeResume(...); an error goes to the error
\* handler, a record is saved when resumeUuid is given and saveAsNew is not
OptimizeCallAI ==
  /\ rreq.pc = "optimize-ai"
  /\ \E returned \in BOOLEAN :
       rreq' = IF ~returned THEN ResumeAnswer(rreq, 500)
               ELSE IF rreq.resumeUuid # "" /\ ~rreq.saveAsNew
               THEN [rreq EXCEPT !.pc = "optimize-save", !.aiReturned = TRUE]
               ELSE ResumeAnswer([rreq EXCEPT !.aiReturned = TRUE], 200)
  /\ UNCHANGED resumes

\* optimize: UPDATE resumes SET optimized_resume_content = ?, status = ? ...,
\* 404 when no row changed
OptimizeSave ==
  /\ rreq.pc = "optimize-save"
  /\ \E ok \in BOOLEAN :
       IF ok
       THEN /\ resumes' = UpdateResume(resumes, rreq.resumeUuid, rreq.user,
                                       "optimized", "ai")
            /\ rreq' = ResumeAnswer(rreq,
                         IF OwnedResume(resumes, rreq.resumeUuid, rreq.user)
                         THEN 200 ELSE 404)
       ELSE /\ rreq' = ResumeAnswer(rreq, 500)
            /\ UNCHANGED resumes

\* PUT /:resumeUuid with optimizedResumeContent: one UPDATE, 404 when no row
\* changed
ResumePut ==
  /\ rreq.pc = "idle"
  /\ \E u \in Users, id \in ResumeIds \cup {NoSuchResume},
        status \in {"optimized", "draft"}, ok \in BOOLEAN :
       LET r == ResumeRequest("idle", "put", u, id)
       IN  IF ok
           THEN /\ resumes' = UpdateResume(resumes, id, u, status, "body")
                /\ rreq' = ResumeAnswer(r, IF OwnedResume(resumes, id, u)
                                           THEN 200 ELSE 404)
           ELSE /\ rreq' = ResumeAnswer(r, 500)
                /\ UNCHANGED resumes

\* DELETE /:resumeUuid: one DELETE, 404 when no row changed
ResumeDelete ==
  /\ rreq.pc = "idle"
  /\ \E u \in Users, id \in ResumeIds \cup {NoSuchResume}, ok \in BOOLEAN :
       LET r == ResumeRequest("idle", "delete", u, id)
       IN  IF ok
           THEN /\ resumes' = DeleteResume(resumes, id, u)
                /\ rreq' = ResumeAnswer(r, IF OwnedResume(resumes, id, u)
                                           THEN 200 ELSE 404)
           ELSE /\ rreq' = ResumeAnswer(r, 500)
                /\ UNCHANGED resumes

\* the answer is sent and the locals of the handler go out of scope
ResumeEnds ==
  /\ rreq.pc = "done"
  /\ rreq' = NoResumeRequest
  /\ UNCHANGED resumes

(***************************************************************************)
(* Registration: routes/authRoutes.js, POST /register, on the table users  *)
(* of database/database.js and the error handler of                        *)
(* middleware/errorHandler.js.  An email is a sequence of characters.      *)
(***************************************************************************)

\* the most registration requests of one run
MaxRegistrations == 4

Letters == {"A", "a", "b", "x", "i", "o"}

LocalChars == Letters \cup {"."}

DomainChars == Letters \cup {"."}

\* EMAIL_REGEX.test: a local part, an @, a domain, a dot, two letters or more
EmailRegexTest(s) ==
  \E k \in 1..Len(s), d \in 1..Len(s) :
    /\ s[k] = "@"
    /\ k > 1
    /\ \A i \in 1..(k - 1) : s[i] \in LocalChars
    /\ d > k + 1
    /\ s[d] = "."
    /\ \A i \in (k + 1)..(d - 1) : s[i] \in DomainChars
    /\ Len(s) - d >= 2
    /\ \A i \in (d + 1)..Len(s) : s[i] \in Letters

RECURSIVE TrimSpacesStart(_)
TrimSpacesStart(s) ==
  IF s # <<>> /\ Head(s) = " " THEN TrimSpacesStart(Tail(s)) ELSE s

RECURSIVE TrimSpacesEnd(_)
TrimSpacesEnd(s) ==
  IF s # <<>> /\ s[Len(s)] = " "
  THEN TrimSpacesEnd(SubSeq(s, 1, Len(s) - 1)) ELSE s

\* email.trim()
TrimSpaces(s) == TrimSpacesEnd(TrimSpacesStart(s))

LowerChar(c) == IF c = "A" THEN "a" ELSE c

\* String.prototype.toLowerCase
toLowerCase(s) == [i \in 1..Len(s) |-> LowerChar(s[i])]

\* validateEmail: the error thrown, or the email trimmed and in lower case
validateEmail(email) ==
  IF email = <<>> THEN [ok |-> FALSE, code |-> "EMAIL_REQUIRED", email |-> <<>>]
  ELSE IF ~EmailRegexTest(TrimSpaces(email))
  THEN [ok |-> FALSE, code |-> "EMAIL_INVALID_FORMAT", email |-> <<>>]
  ELSE [ok |-> TRUE, code |-> "", email |-> toLowerCase(TrimSpaces(email))]

\* the emails of the request bodies: two people, one of them also written in
\* upper case and with spaces around, an email without @ and none at all
BodyEmails ==
  { <<"a", "@", "x", ".", "i", "o">>,
    <<"A", "@", "x", ".", "i", "o">>,
    <<" ", "a", "@", "x", ".", "i", "o", " ">>,
    <<"b", "@", "x", ".", "i", "o">>,
    <<"a", "x", ".", "i", "o">>,
    <<>> }

\* the emails a row of users can hold
StoredEmails == {validateEmail(e).email : e \in {b \in BodyEmails : validateEmail(b).ok}}

\* users.email is TEXT UNIQUE NOT NULL: never enforced
NoUniqueConstraint(t, email) == FALSE

\* users.email is TEXT UNIQUE NOT NULL: an insert of an email a row holds is
\* refused with code 23505
UniqueViolation(t, email) == t[email] > 0

\* INSERT INTO users (..., email, ...)
InsertUser(t, email) == [t EXCEPT ![email] = @ + 1]

\* SELECT id FROM users WHERE email = ?
ExistingUser(t, email) == t[email] > 0

\* handlePostgreSQLError: the status of the AppError it returns
handlePostgreSQLError(code) ==
  IF code = "23505" THEN 409
  ELSE IF code = "23503" THEN 400
  ELSE 500

\* errorHandler: the status answered for an error thrown in a handler; an
\* AppError is operational and carries its status, a database error carries a
\* code, anything else is answered 500
errorHandler(error) ==
  IF error.code \in {"23505", "23503"} THEN handlePostgreSQLError(error.code)
  ELSE IF ~error.isOperational THEN 500
  ELSE error.statusCode

\* an AppError as a handler throws it: isOperational is set by the constructor
OperationalError(statusCode, code) ==
  [isOperational |-> TRUE, statusCode |-> statusCode, code |-> code]

\* the error pg rejects a query with
DatabaseError(code) == [isOperational |-> FALSE, statusCode |-> 0, code |-> code]

VARIABLES
  userRows,    \* email -> number of rows of the table users holding it
  reg,         \* client -> the registration request in hand
  registered,  \* number of registration requests received
  created      \* email -> number of requests answered 201 for it

gvars == <<userRows, reg, registered, created>>

\* a request: its place in the handler, the validated email, whether the
\* existence check found no row, and the status answered
NoRegistration == [pc |-> "off", email |-> <<>>, passed |-> FALSE, status |-> 0]

InitRegister ==
  /\ userRows = [e \in StoredEmails |-> 0]
  /\ reg = [c \in Clients |-> NoRegistration]
  /\ registered = 0
  /\ created = [e \in StoredEmails |-> 0]

RegisterAnswer(c, status) == [reg EXCEPT ![c].pc = "done", ![c].status = status]

\* the request arrives and its body is validated
StartRegister(c) ==
  /\ reg[c].pc = "off"
  /\ registered < MaxRegistrations
  /\ registered' = registered + 1
  /\ \E body \in BodyEmails :
       LET v == validateEmail(body)
       IN  IF v.ok
           THEN reg' = [reg EXCEPT ![c] = [pc |-> "check", email |-> v.email, passed |-> FALSE, status |-> 0]]
           ELSE reg' = [reg EXCEPT ![c] = [pc |-> "done", email |-> <<>>, passed |-> FALSE,
                                           status |-> errorHandler(OperationalError(400, v.code))]]
  /\ UNCHANGED <<userRows, created>>

\* await dbUtils.get('SELECT id FROM users WHERE email = ?'): the server runs
\* the statement or rejects it
RegisterCheck(c) ==
  /\ reg[c].pc = "check"
  /\ \E ran \in BOOLEAN :
       IF ~ran THEN reg' = RegisterAnswer(c, errorHandler(DatabaseError("42601")))
       ELSE IF ExistingUser(userRows, reg[c].email)
       THEN reg' = RegisterAnswer(c, errorHandler(OperationalError(409, "EMAIL_ALREADY_EXISTS")))
       ELSE reg' = [reg EXCEPT ![c].pc = "hash", ![c].passed = TRUE]
  /\ UNCHANGED <<userRows, registered, created>>

\* await bcrypt.hash(password, 12)
RegisterHash(c) ==
  /\ reg[c].pc = "hash"
  /\ reg' = [reg EXCEPT ![c].pc = "insert"]
  /\ UNCHANGED <<userRows, registered, created>>

\* await dbUtils.run('INSERT INTO users ...'), then the token and 201
RegisterInsert(c) ==
  /\ reg[c].pc = "insert"
  /\ \E ran \in BOOLEAN :
       IF ~ran
       THEN /\ reg' = RegisterAnswer(c, errorHandler(DatabaseError("42601")))
            /\ UNCHANGED <<userRows, created>>
       ELSE IF UniqueViolation(userRows, reg[c].email)
       THEN /\ reg' = RegisterAnswer(c, errorHandler(DatabaseError("23505")))
            /\ UNCHANGED <<userRows, created>>
       ELSE /\ userRows' = InsertUser(userRows, reg[c].email)
            /\ created' = [created EXCEPT ![reg[c].email] = @ + 1]
            /\ reg' = RegisterAnswer(c, 201)
  /\ UNCHANGED registered

\* the answer is sent and the locals of the handler go out of scope
RegisterEnds(c) ==
  /\ reg[c].pc = "done"
  /\ reg' = [reg EXCEPT ![c] = NoRegistration]
  /\ UNCHANGED <<userRows, registered, created>>

vars == <<pvars, aivars, dbvars, evars, fbvars, cvars, tvars, rvars, gvars>>

ParseIdle ==
  /\ pText = <<>>
  /\ pInfo = CHOOSE i \in Infos : TRUE
  /\ pOut = NoOutput
  /\ pPc = "off"

AIIdle ==
  /\ apiKey = FALSE
  /\ maxRetries = 1
  /\ personalInfo = CHOOSE i \in Infos : TRUE
  /\ aiPc = "off"
  /\ attempt = 0
  /\ lastError = ""
  /\ calls = 0
  /\ failed = 0
  /\ delays = <<>>
  /\ content = <<>>
  /\ aiOut = NoOutput
  /\ aiError = NoError

DBIdle ==
  /\ rows = EmptyTable
  /\ nextUuid = 1
  /\ txnOpen = FALSE
  /\ txnAborted = FALSE
  /\ txnSnap = EmptyTable
  /\ req = [c \in Clients |-> NoRequest]
  /\ started = 0

EnvelopeIdle ==
  /\ eData = CHOOSE e \in Envelopes : TRUE
  /\ eOut = NoResult
  /\ ePc = "off"

FallbackIdle ==
  /\ fbText = <<>>
  /\ fbInfo = CHOOSE i \in Infos : TRUE
  /\ now = 2026
  /\ fbOut = <<>>

CallsIdle ==
  /\ service = [apiKey |-> FALSE, maxRetries |-> 1]
  /\ call = [c \in Callers |-> [NewCall(CHOOSE i \in CallInfos : TRUE) EXCEPT !.pc = "off"]]

TransportIdle ==
  /\ available = {}
  /\ httpClient = NoClient
  /\ tr = [NoCall EXCEPT !.pc = "off"]

ResumeIdle ==
  /\ resumes = [i \in ResumeIds |-> NoResume]
  /\ rreq = [NoResumeRequest EXCEPT !.pc = "off"]

RegisterIdle == InitRegister

\* the variables of the parts a specification leaves alone
OnlyParse == UNCHANGED <<aivars, dbvars, evars, fbvars, cvars, tvars, rvars, gvars>>

OnlyAI == UNCHANGED <<pvars, dbvars, evars, fbvars, cvars, tvars, rvars, gvars>>

OnlyDB == UNCHANGED <<pvars, aivars, evars, fbvars, cvars, tvars, rvars, gvars>>

OnlyEnvelope == UNCHANGED <<pvars, aivars, dbvars, fbvars, cvars, tvars, rvars, gvars>>

OnlyFallback == UNCHANGED <<pvars, aivars, dbvars, evars, cvars, tvars, rvars, gvars>>

OnlyCalls == UNCHANGED <<pvars, aivars, dbvars, evars, fbvars, tvars, rvars, gvars>>

OnlyTransport == UNCHANGED <<pvars, aivars, dbvars, evars, fbvars, cvars, rvars, gvars>>

OnlyResume == UNCHANGED <<pvars, aivars, dbvars, evars, fbvars, cvars, tvars, gvars>>

OnlyRegister == UNCHANGED <<pvars, aivars, dbvars, evars, fbvars, cvars, tvars, rvars>>

\* the transport alone: one call after the other
InitTransportOnly ==
  InitTransport /\ ParseIdle /\ AIIdle /\ DBIdle /\ EnvelopeIdle /\ FallbackIdle /\ CallsIdle /\ ResumeIdle /\ RegisterIdle

NextTransport ==
  \/ MakeRequest /\ OnlyTransport
  \/ MakeHTTPRequest /\ OnlyTransport
  \/ Tick /\ OnlyTransport
  \/ ResponseHeaders /\ OnlyTransport
  \/ ResponseData /\ OnlyTransport
  \/ ResponseEnd /\ OnlyTransport
  \/ RequestTimeout /\ OnlyTransport
  \/ RequestError /\ OnlyTransport
  \/ FetchSettles /\ OnlyTransport
  \/ CallEnds /\ OnlyTransport

SpecTransport == InitTransportOnly /\ [][NextTransport]_vars

\* the resume routes, one request after the other
InitResumeOnly ==
  InitResume /\ ParseIdle /\ AIIdle /\ DBIdle /\ EnvelopeIdle /\ FallbackIdle /\ CallsIdle /\ TransportIdle /\ RegisterIdle

NextResume ==
  \/ StartOptimize /\ OnlyResume
  \/ OptimizeGetProfile /\ OnlyResume
  \/ OptimizeGetTemplate /\ OnlyResume
  \/ OptimizeCallAI /\ OnlyResume
  \/ OptimizeSave /\ OnlyResume
  \/ ResumePut /\ OnlyResume
  \/ ResumeDelete /\ OnlyResume
  \/ ResumeEnds /\ OnlyResume

SpecResume == InitResumeOnly /\ [][NextResume]_vars

\* registrations, the requests of the clients interleaved at every await
InitRegisterOnly ==
  InitRegister /\ ParseIdle /\ AIIdle /\ DBIdle /\ EnvelopeIdle /\ FallbackIdle /\ CallsIdle /\ TransportIdle /\ ResumeIdle

NextRegister ==
  \/ \E c \in Clients : StartRegister(c) /\ OnlyRegister
  \/ \E c \in Clients : RegisterCheck(c) /\ OnlyRegister
  \/ \E c \in Clients : RegisterHash(c) /\ OnlyRegister
  \/ \E c \in Clients : RegisterInsert(c) /\ OnlyRegister
  \/ \E c \in Clients : RegisterEnds(c) /\ OnlyRegister

SpecRegister == InitRegisterOnly /\ [][NextRegister]_vars

\* the repair stage alone, on every text and contact info
InitParseOnly ==
  InitParse /\ AIIdle /\ DBIdle /\ EnvelopeIdle /\ FallbackIdle /\ CallsIdle /\ TransportIdle /\ ResumeIdle /\ RegisterIdle

NextParse ==
  \/ ParseResume /\ OnlyParse

SpecParse == InitParseOnly /\ [][NextParse]_vars

\* parseResponse alone
InitEnvelopeOnly ==
  InitEnvelope /\ ParseIdle /\ AIIdle /\ DBIdle /\ FallbackIdle /\ CallsIdle /\ TransportIdle /\ ResumeIdle /\ RegisterIdle

NextEnvelope ==
  \/ ParseEnvelope /\ OnlyEnvelope

SpecEnvelope == InitEnvelopeOnly /\ [][NextEnvelope]_vars

\* two calls of the repair stage of the second version, the clock running
InitFallbackOnly ==
  InitFallback /\ ParseIdle /\ AIIdle /\ DBIdle /\ EnvelopeIdle /\ CallsIdle /\ TransportIdle /\ ResumeIdle /\ RegisterIdle

NextFallback ==
  \/ CallParse /\ OnlyFallback
  \/ YearPasses /\ OnlyFallback

SpecFallback == InitFallbackOnly /\ [][NextFallback]_vars

\* the calls of optimizeResume of the callers, interleaved
InitCallsOnly ==
  InitCalls /\ ParseIdle /\ AIIdle /\ DBIdle /\ EnvelopeIdle /\ FallbackIdle /\ TransportIdle /\ ResumeIdle /\ RegisterIdle

NextCalls ==
  \/ \E c \in Callers : CallOptimize(c) /\ OnlyCalls
  \/ \E c \in Callers : CallSend(c) /\ OnlyCalls
  \/ \E c \in Callers : CallFails(c) /\ OnlyCalls
  \/ \E c \in Callers : CallAnswers(c) /\ OnlyCalls
  \/ \E c \in Callers : CallWaited(c) /\ OnlyCalls
  \/ \E c \in Callers : CallRepairs(c) /\ OnlyCalls

SpecCalls == InitCallsOnly /\ [][NextCalls]_vars

\* one call of optimizeResume
InitAIOnly ==
  InitAI /\ ParseIdle /\ DBIdle /\ EnvelopeIdle /\ FallbackIdle /\ CallsIdle /\ TransportIdle /\ ResumeIdle /\ RegisterIdle

NextAI ==
  \/ OptimizeResume /\ OnlyAI
  \/ SendRequest /\ OnlyAI
  \/ TransportFails /\ OnlyAI
  \/ EnvelopeArrives /\ OnlyAI
  \/ BackoffElapsed /\ OnlyAI
  \/ RepairAnswer /\ OnlyAI

SpecAI == InitAIOnly /\ [][NextAI]_vars

\* the step that leaves the repair stage: parseResumeResponse is synchronous
\* code and runs to its end (a step of RepairAnswer, named by its places)
RepairEnds == aiPc = "parse" /\ aiPc' \in {"returned", "threw"}

\* one call of optimizeResume, every started step of which goes on: the
\* event loop runs the continuation of each await, every transport attempt
\* ends (response, error or timeout), every timer of a delay fires, and the
\* synchronous repair runs to its end
FairAI ==
  /\ WF_vars(SendRequest /\ OnlyAI)
  /\ WF_vars(TransportFails /\ OnlyAI)
  /\ WF_vars(EnvelopeArrives /\ OnlyAI)
  /\ WF_vars(BackoffElapsed /\ OnlyAI)
  /\ WF_aiPc(RepairEnds)

SpecAIFair == InitAIOnly /\ [][NextAI]_vars /\ FairAI

InitDBOnly ==
  InitDB /\ ParseIdle /\ AIIdle /\ EnvelopeIdle /\ FallbackIdle /\ CallsIdle /\ TransportIdle /\ ResumeIdle /\ RegisterIdle

\* no request is in hand
Quiet == \A d \in Clients : ~InHand(d)

\* requests one after the other: a request starts when the one before is answered
NextSeq ==
  \/ Quiet /\ StartCreate(1) /\ UNCHANGED started /\ OnlyDB
  \/ Quiet /\ StartUpdate(1) /\ UNCHANGED started /\ OnlyDB
  \/ Quiet /\ StartDelete(1) /\ UNCHANGED started /\ OnlyDB
  \/ Quiet /\ StartSetDefault(1) /\ UNCHANGED started /\ OnlyDB
  \/ Quiet /\ StartDuplicate(1) /\ UNCHANGED started /\ OnlyDB
  \/ CreateUnset(1) /\ OnlyDB
  \/ CreateInsert(1) /\ OnlyDB
  \/ UpdateUnset(1) /\ OnlyDB
  \/ UpdateRow(1) /\ OnlyDB
  \/ DeleteGet(1) /\ OnlyDB
  \/ DeleteCount(1) /\ OnlyDB
  \/ DeletePromote(1) /\ OnlyDB
  \/ DeleteDelete(1) /\ OnlyDB
  \/ DefaultGet(1) /\ OnlyDB
  \/ DefaultBegin(1) /\ OnlyDB
  \/ DefaultUnset(1) /\ OnlyDB
  \/ DefaultSet(1) /\ OnlyDB
  \/ DefaultCommit(1) /\ OnlyDB
  \/ DefaultRollback(1) /\ OnlyDB
  \/ DuplicateGet(1) /\ OnlyDB
  \/ DuplicateInsert(1) /\ OnlyDB

SpecSeq == InitDBOnly /\ [][NextSeq]_vars

\* the routes of both kinds, one request after the other; the template and
\* profile routes and the resume routes work on tables of their own, and a
\* run follows the one or the other
InitUsers ==
  \/ InitDBOnly
  \/ InitResumeOnly

NextUsers ==
  \/ Quiet /\ rreq.pc = "off" /\ StartCreate(1) /\ UNCHANGED started /\ OnlyDB
  \/ Quiet /\ rreq.pc = "off" /\ StartUpdate(1) /\ UNCHANGED started /\ OnlyDB
  \/ Quiet /\ rreq.pc = "off" /\ StartDelete(1) /\ UNCHANGED started /\ OnlyDB
  \/ Quiet /\ rreq.pc = "off" /\ StartSetDefault(1) /\ UNCHANGED started /\ OnlyDB
  \/ Quiet /\ rreq.pc = "off" /\ StartDuplicate(1) /\ UNCHANGED started /\ OnlyDB
  \/ CreateUnset(1) /\ OnlyDB
  \/ CreateInsert(1) /\ OnlyDB
  \/ UpdateUnset(1) /\ OnlyDB
  \/ UpdateRow(1) /\ OnlyDB
  \/ DeleteGet(1) /\ OnlyDB
  \/ DeleteCount(1) /\ OnlyDB
  \/ DeletePromote(1) /\ OnlyDB
  \/ DeleteDelete(1) /\ OnlyDB
  \/ DefaultGet(1) /\ OnlyDB
  \/ DefaultBegin(1) /\ OnlyDB
  \/ DefaultUnset(1) /\ OnlyDB
  \/ DefaultSet(1) /\ OnlyDB
  \/ DefaultCommit(1) /\ OnlyDB
  \/ DefaultRollback(1) /\ OnlyDB
  \/ DuplicateGet(1) /\ OnlyDB
  \/ DuplicateInsert(1) /\ OnlyDB
  \/ StartOptimize /\ OnlyResume
  \/ OptimizeGetProfile /\ OnlyResume
  \/ OptimizeGetTemplate /\ OnlyResume
  \/ OptimizeCallAI /\ OnlyResume
  \/ OptimizeSave /\ OnlyResume
  \/ ResumePut /\ OnlyResume
  \/ ResumeDelete /\ OnlyResume
  \/ ResumeEnds /\ OnlyResume

SpecUsers == InitUsers /\ [][NextUsers]_vars

\* one more request may start
MayStart ==
  /\ started < MaxRequests
  /\ started' = started + 1

\* two clients whose requests overlap
NextDB ==
  \/ \E c \in Clients : MayStart /\ StartCreate(c) /\ OnlyDB
  \/ \E c \in Clients : MayStart /\ StartUpdate(c) /\ OnlyDB
  \/ \E c \in Clients : MayStart /\ StartDelete(c) /\ OnlyDB
  \/ \E c \in Clients : MayStart /\ StartSetDefault(c) /\ OnlyDB
  \/ \E c \in Clients : MayStart /\ StartDuplicate(c) /\ OnlyDB
  \/ \E c \in Clients : CreateUnset(c) /\ OnlyDB
  \/ \E c \in Clients : CreateInsert(c) /\ OnlyDB
  \/ \E c \in Clients : UpdateUnset(c) /\ OnlyDB
  \/ \E c \in Clients : UpdateRow(c) /\ OnlyDB
  \/ \E c \in Clients : DeleteGet(c) /\ OnlyDB
  \/ \E c \in Clients : DeleteCount(c) /\ OnlyDB
  \/ \E c \in Clients : DeletePromote(c) /\ OnlyDB
  \/ \E c \in Clients : DeleteDelete(c) /\ OnlyDB
  \/ \E c \in Clients : DefaultGet(c) /\ OnlyDB
  \/ \E c \in Clients : DefaultBegin(c) /\ OnlyDB
  \/ \E c \in Clients : DefaultUnset(c) /\ OnlyDB
  \/ \E c \in Clients : DefaultSet(c) /\ OnlyDB
  \/ \E c \in Clients : DefaultCommit(c) /\ OnlyDB
  \/ \E c \in Clients : DefaultRollback(c) /\ OnlyDB
  \/ \E c \in Clients : DuplicateGet(c) /\ OnlyDB
  \/ \E c \in Clients : DuplicateInsert(c) /\ OnlyDB

SpecDB == InitDBOnly /\ [][NextDB]_vars

(***************************************************************************)
(* Properties of the repair stage (SpecParse).                             *)
(***************************************************************************)

\* what JSON.parse is given, and what it makes of it
Parsed == JSONParse(CleanResponse(pText))

\* the record has its eight fields with the documented types
WellTyped(rec) ==
  \A k \in Fields : rec[k].t = (IF k \in StringFields THEN "string" ELSE "array")

\* the text is a JSON object, or JSON.parse rejects it (malformed or no JSON)
ObjectOrNoJson == ~Parsed.ok \/ Parsed.t = "object"

\* C1: for every contact info with non-empty fullName and email and every
\* model text that is a JSON object, malformed JSON or no JSON, the record
\* parseResumeResponse returns has all eight fields, none undefined or null,
\* name, email, linkedinUrl and professionalSummary strings and the other
\* four arrays.
C1_RecordWellTyped ==
  (pPc = "returned" /\ ObjectOrNoJson) => (~pOut.threw /\ WellTyped(pOut.rec))

\* the model text itself, as JSON.parse reads it
TextParsed == JSONParse(pText)

\* the text is a JSON object
TextIsObject == TextParsed.ok /\ TextParsed.t = "object"

\* value v is a non-empty string for a string field, a non-empty array for
\* an array field
WellShaped(k, v) ==
  IF k \in StringFields THEN v.t = "string" /\ v.s # "" ELSE IsNonEmptyArray(v)

\* C9: if the model text is a valid JSON object with all eight fields
\* well-typed, the record parseResumeResponse returns equals the object: no
\* value altered, replaced by a default or dropped.  Stated for the objects
\* of the claim whose strings and arrays are all non-empty, where no default
\* applies.
C9_RoundTripOfFullObject ==
  (/\ pPc = "returned"
   /\ TextIsObject
   /\ \A k \in Fields : WellShaped(k, TextParsed.o[k]))
  => (~pOut.threw /\ \A k \in Fields : pOut.rec[k] = TextParsed.o[k])

\* the default of field k: fullName, email, the phone as a list of one or
\* the empty list, linkedinUrl or the URL made of fullName, the placeholders
ExpectedDefault(k) ==
  CASE k = "name" -> pInfo.fullName
    [] k = "email" -> pInfo.email
    [] k = "mobileNumbers" ->
         IF pInfo.phone.t = "string" /\ pInfo.phone.s # ""
         THEN Arr("[" \o pInfo.phone.s \o "]") ELSE Arr("[]")
    [] k = "linkedinUrl" ->
         IF pInfo.linkedinUrl.t = "string" /\ pInfo.linkedinUrl.s # ""
         THEN pInfo.linkedinUrl ELSE Str("https://linkedin.com/in/ana-lee")
    [] k = "professionalSummary" -> DefaultSummary
    [] k = "professionalExperience" -> DefaultExperience
    [] k = "skills" -> DefaultSkills
    [] k = "education" -> DefaultEducation

\* C10: if the model text parses to a JSON object in which a field X is
\* absent, X of the returned record is the default of X, and every field
\* that is present and well-shaped is kept unchanged.
C10_DefaultsForAbsentFields ==
  (/\ pPc = "returned"
   /\ TextIsObject
   /\ \E a \in Fields : TextParsed.o[a] = Undef)
  => /\ ~pOut.threw
     /\ \A k \in Fields :
          /\ TextParsed.o[k] = Undef => pOut.rec[k] = ExpectedDefault(k)
          /\ WellShaped(k, TextParsed.o[k]) => pOut.rec[k] = TextParsed.o[k]

\* the text within the wrapping of Wrappings, for a text that is wrapped
Core(text) ==
  LET n == Len(text)
  IN CASE n >= 9 /\ text[1] = Word /\ text[3] = FenceJson -> SubSeq(text, 5, n - 4)
       [] n >= 5 /\ text[1] \in {FenceJson, Fence} -> SubSeq(text, 3, n - 2)
       [] n >= 3 /\ text[1] = Ws -> SubSeq(text, 2, n - 1)
       [] n >= 3 /\ text[1] = Word -> SubSeq(text, 3, n)
       [] n >= 3 /\ text[n] = Word -> SubSeq(text, 1, n - 2)
       [] OTHER -> text

\* pText is a valid JSON object text, alone, in fences or with commentary
\* that holds no brace
IsWrappedObject ==
  /\ JSONParse(Core(pText)).ok
  /\ JSONParse(Core(pText)).t = "object"
  /\ pText \in Wrappings(Core(pText))

\* C16: for any valid JSON object text J, parseResumeResponse returns the
\* same record for J alone, for J wrapped in json code fences, and for J
\* preceded or followed by commentary that contains no brace character:
\* fences are removed and the parse is applied to the span from the first
\* opening brace to the last closing brace.
C16_SameRecordHoweverWrapped ==
  pPc = "returned" /\ IsWrappedObject =>
    /\ pOut = parseResumeResponse(Core(pText), pInfo)
    /\ CleanResponse(pText) = CleanResponse(Core(pText))

\* an answer in json fences with commentary before and after was parsed and
\* its fields were taken
C16_Witness ==
  /\ pPc = "returned"
  /\ IsWrappedObject
  /\ pText[1] = Word /\ pText[3] = FenceJson /\ pText[Len(pText)] = Word
  /\ ~pOut.threw
  /\ pOut.rec["professionalSummary"] = GoodValue("professionalSummary")

\* C17: whenever the sliced text is not valid JSON (including text that
\* contains no brace), parseResumeResponse raises no error and returns a
\* record whose name and email equal contactInfo.fullName and
\* contactInfo.email and whose professionalExperience, skills and education
\* are the non-empty generic placeholder entries of the fallback object.
C17_FallbackWhenNotJson ==
  pPc = "returned" /\ ~Parsed.ok =>
    /\ ~pOut.threw
    /\ pOut.rec["name"] = pInfo.fullName
    /\ pOut.rec["email"] = pInfo.email
    /\ pOut.rec["professionalExperience"] = FallbackExperience
    /\ pOut.rec["skills"] = FallbackSkills
    /\ pOut.rec["education"] = FallbackEducation
    /\ \A k \in {"professionalExperience", "skills", "education"} :
         IsNonEmptyArray(pOut.rec[k])

\* commentary without a brace was answered with the fallback record
C17_Witness ==
  /\ pPc = "returned"
  /\ pText = <<Word, Ws, Word>>
  /\ ~Parsed.ok
  /\ ~pOut.threw
  /\ pOut.rec["skills"] = FallbackSkills

(***************************************************************************)
(* Properties of the fallback of the second version (SpecFallback).        *)
(***************************************************************************)

\* the text of the calls is unparseable: JSON.parse throws on its slice
Unparseable == ~JSONParse(CleanResponse(fbText)).ok

\* C18: the fallback is deterministic: two calls of parseResumeResponse with
\* equal contactInfo and unparseable model text return equal records,
\* whatever the time at which each call is made.
C18_FallbackDeterministic ==
  Unparseable /\ Len(fbOut) = 2 => fbOut[1] = fbOut[2]

(***************************************************************************)
(* Properties of parseResponse (SpecEnvelope).                             *)
(***************************************************************************)

\* candidates[0].content.parts[0].text of the envelope is non-empty after
\* trimming
HasText == eData.hasCandidate /\ eData.hasPart /\ eData.hasText /\ Len(Trim(eData.text)) > 0

\* C13: an attempt succeeds only if the response envelope has no error
\* member, candidates[0] exists, and candidates[0].content.parts[0].text is
\* non-empty after trimming; in every other case the attempt is a failure,
\* and the text handed to the repair stage by a successful attempt is exactly
\* that candidate's text.
C13_SuccessNeedsNoErrorMember ==
  ePc = "returned" =>
    /\ eOut.ok => eData.error = Undef /\ HasText
    /\ eOut.ok => eOut.content = eData.text

\* C13, amended: an attempt succeeds only if the response envelope has no
\* error member of a truthy value, candidates[0] exists, and
\* candidates[0].content.parts[0].text is non-empty after trimming; in every
\* other case the attempt is a failure, and the text handed to the repair
\* stage by a successful attempt is exactly that candidate's text.
C13_SuccessNeedsNoTruthyError ==
  ePc = "returned" =>
    /\ eOut.ok => ~Truthy(eData.error) /\ HasText
    /\ eOut.ok => eOut.content = eData.text

\* an envelope whose text is padded with white space was accepted
C13_Witness ==
  /\ ePc = "returned"
  /\ eOut.ok
  /\ eData.text # Trim(eData.text)
  /\ eData.finishReason = "MAX_TOKENS"

(***************************************************************************)
(* Properties of calls of optimizeResume in flight at once (SpecCalls).    *)
(***************************************************************************)

\* the failed attempts among the answers to a call
Failures(r) == {i \in 1..Len(r.seen) : ~r.seen[i].ok}

\* the call is what its own inputs and the answers to it make it: the
\* attempts, the waits, the last error and the result
OwnResult(r) ==
  LET n == Len(r.seen)
      waits == IF r.failed = service.maxRetries THEN r.failed - 1 ELSE r.failed
  IN /\ r.failed = Cardinality(Failures(r))
     /\ r.sent = n + (IF r.pc = "inflight" THEN 1 ELSE 0)
     /\ r.attempt = (IF r.pc \in {"request", "inflight"} THEN n + 1 ELSE n)
     /\ r.delays = [k \in 1..waits |-> (2 ^ k) * 1000]
     /\ r.lastError = (IF r.failed = 0 THEN "" ELSE r.seen[r.failed].message)
     /\ r.pc = "returned" =>
          /\ r.out = parseResumeResponse(r.seen[n].content, r.info)
          /\ r.error = NoError
     /\ r.pc = "threw" =>
          /\ r.out = NoOutput
          /\ r.error = (IF ~service.apiKey THEN OptimizeError(KeyMissingError)
                        ELSE OptimizeError(ExhaustedError(service.maxRetries,
                                                          r.seen[n].message)))
          /\ service.apiKey => n = service.maxRetries

\* C19: when several optimizeResume calls are in flight concurrently, each
\* keeps its own attempt counter and last error: a failure or backoff wait in
\* one call never consumes an attempt of, delays, or changes the result of
\* another call, and each call's result depends only on its own inputs and
\* its own backend responses.
C19_CallsIndependent ==
  \A c \in Callers : OwnResult(call[c])

\* one call waits after its second failure while the first attempt of the
\* other, made meanwhile, has failed for another cause
C19_Witness ==
  /\ call[1].pc = "backoff"
  /\ call[1].failed = 2
  /\ call[2].pc = "inflight"
  /\ call[2].failed = 1
  /\ call[1].lastError # call[2].lastError

(***************************************************************************)
(* Properties of one call of optimizeResume (SpecAI).                      *)
(***************************************************************************)

\* the messages an attempt can fail with
FailureMessages ==
  {makeAPIRequestError(m) : m \in TransportFailures} \cup
  {parseResponse(data).message : data \in Envelopes}

\* the error is the missing-key error, as optimizeResume passes it on
IsKeyMissing(e) == e = OptimizeError(KeyMissingError)

\* the error is the retries-exhausted error, as optimizeResume passes it on
IsExhausted(e) ==
  \E n \in 1..MaxRetries, m \in FailureMessages :
    e = OptimizeError(ExhaustedError(n, m))

\* C2: once an attempt has produced non-empty model text, optimizeResume
\* returns a record and raises no error, whatever the text; the only errors
\* that escape optimizeResume are the missing-key error and the
\* retries-exhausted error.
C2_OnlyKeyOrExhaustedEscape ==
  /\ content # <<>> => aiPc \in {"parse", "returned"}
  /\ aiPc = "threw" => (IsKeyMissing(aiError) \/ IsExhausted(aiError))

\* callGeminiAPI has returned the text of an attempt
GotText == content # <<>>

\* C5: if the transport fails on the first N attempts and succeeds on attempt
\* N+1, with N < maxRetries, callGeminiAPI succeeds, the transport was
\* invoked exactly N+1 times, and the backoff waited after the k-th failed
\* attempt is 2^k seconds.
C5_RetriesThenSuccess ==
  /\ \A k \in 1..Len(delays) : delays[k] = (2 ^ k) * 1000
  /\ GotText =>
       /\ failed < maxRetries
       /\ calls = failed + 1
       /\ Len(delays) = failed

\* two attempts failed, two backoffs were waited and the last attempt allowed
\* brought the text
C5_Witness ==
  /\ GotText
  /\ failed >= 2
  /\ failed = maxRetries - 1
  /\ Len(delays) = failed

\* C6: if the transport fails on every attempt, callGeminiAPI fails with the
\* retries-exhausted error after exactly maxRetries transport invocations,
\* never more and never fewer.
C6_ExhaustedAfterMaxRetries ==
  /\ calls <= maxRetries
  /\ failed = maxRetries =>
       /\ aiPc = "threw"
       /\ aiError = OptimizeError(ExhaustedError(maxRetries, lastError))
       /\ calls = maxRetries
  /\ (aiPc = "threw" /\ apiKey /\ ~GotText) =>
       /\ failed = maxRetries
       /\ calls = maxRetries
       /\ IsExhausted(aiError)

\* every attempt of a call with several attempts failed
C6_Witness ==
  /\ aiPc = "threw"
  /\ maxRetries >= 2
  /\ failed = maxRetries
  /\ calls = maxRetries
  /\ IsExhausted(aiError)

\* C7: with no API key configured, optimizeResume fails at once with the
\* missing-key error, makes no transport call and waits no backoff, and the
\* error that reaches the caller is told apart from the retries-exhausted
\* error.  Both reach the caller as AppError 500 RESUME_OPTIMIZATION_FAILED:
\* they are told apart by the message, which carries that of the cause.
C7_NoKeyFailsAtOnce ==
  /\ ~apiKey =>
       /\ aiPc \in {"idle", "threw"}
       /\ calls = 0
       /\ failed = 0
       /\ delays = <<>>
       /\ aiPc = "threw" => (IsKeyMissing(aiError) /\ ~IsExhausted(aiError))
  /\ (apiKey /\ aiPc = "threw") => ~IsKeyMissing(aiError)

\* the call without a key has failed
C7_Witness ==
  /\ ~apiKey
  /\ aiPc = "threw"
  /\ IsKeyMissing(aiError)
  /\ calls = 0

\* C8: a call fails by exhaustion only if every one of its maxRetries
\* attempts failed at the transport or envelope level; as soon as one
\* attempt yields non-empty text, no further transport call is made and the
\* call returns a record, even when the text is not valid JSON.
C8_TextEndsTheCall ==
  /\ IsExhausted(aiError) => (failed = maxRetries /\ ~GotText)
  /\ GotText => (calls = failed + 1 /\ aiPc \in {"parse", "returned"})

\* the transport requests of the call that were sent and have not ended
InFlight == calls - failed - (IF GotText THEN 1 ELSE 0)

\* C11: within one callGeminiAPI call the attempts are strictly sequential:
\* attempt n+1 starts only after attempt n has been observed to fail and the
\* backoff wait that follows it has fully elapsed; two attempts of the same
\* call are never in flight at the same time.
C11_AttemptsSequential ==
  /\ [](/\ InFlight \in {0, 1}
        /\ InFlight = 1 <=> aiPc = "inflight"
        /\ aiPc = "inflight" =>
             /\ calls = attempt
             /\ failed = attempt - 1
             /\ Len(delays) = attempt - 1)
  /\ [][/\ calls' # calls =>
             /\ calls' = calls + 1
             /\ aiPc = "request"
             /\ failed = calls
             /\ attempt = calls + 1
        /\ attempt' # attempt =>
             /\ attempt' = attempt + 1
             /\ aiPc = "idle" \/ (aiPc = "backoff" /\ Len(delays) = attempt)
        /\ Len(delays') # Len(delays) =>
             /\ aiPc = "inflight"
             /\ aiPc' = "backoff"
             /\ failed' = failed + 1]_vars

\* the third attempt is in flight: two have failed and two waits have elapsed
C11_Witness ==
  /\ aiPc = "inflight"
  /\ attempt = 3
  /\ failed = 2
  /\ Len(delays) = 2

\* an attempt fails in this step
AttemptFails == failed' = failed + 1

\* C12: every kind of attempt failure (network error, timeout, non-2xx status
\* including 401/403 and 429, malformed envelope, SAFETY-blocked candidate) is
\* handled identically: it consumes exactly one attempt and, unless it was
\* the last allowed attempt, is followed by a backoff wait and a new attempt;
\* no failure kind ends the call before maxRetries attempts were made.
C12_FailuresHandledAlike ==
  /\ [](aiPc = "threw" /\ apiKey /\ ~GotText => calls = maxRetries /\ failed = maxRetries)
  /\ [][/\ failed' # failed => AttemptFails
        /\ AttemptFails =>
             /\ lastError' \in FailureMessages
             /\ calls = attempt /\ calls' = calls /\ attempt' = attempt
             /\ failed' = attempt
             /\ IF attempt < maxRetries
                THEN /\ aiPc' = "backoff"
                     /\ delays' = Append(delays, (2 ^ attempt) * 1000)
                ELSE /\ aiPc' = "threw"
                     /\ delays' = delays
        /\ aiPc = "backoff" => aiPc' = "request" /\ attempt' = attempt + 1
        /\ aiPc = "request" => aiPc' = "inflight" /\ calls' = attempt]_vars

\* a rejected key on the first attempt and a blocked candidate on the second
\* were each followed by a backoff wait
C12_Witness ==
  /\ aiPc = "backoff"
  /\ failed = 2
  /\ lastError = "Response blocked due to safety concerns"
  /\ delays = <<2000, 4000>>

\* the message of the error response.json() throws for a body that is no JSON
InvalidJson == "Invalid JSON response: ..."

\* C14: if the backend answers with a 2xx status and a body that is not valid
\* JSON, the parse error raised by the .json() accessor is not surfaced to
\* the caller of optimizeResume: it is handled by the repair path and the
\* caller still receives a record.
C14_JsonErrorNotSurfaced ==
  /\ lastError = InvalidJson => aiPc # "threw"
  /\ \A n \in 1..MaxRetries :
       aiError # OptimizeError(ExhaustedError(n, InvalidJson))

\* C15: when retries are exhausted, the error surfaced by callGeminiAPI
\* carries the attempt count (equal to the configured number of retries) and
\* the cause of the last attempt's failure, not that of an earlier attempt.
C15_ExhaustedCarriesLastCause ==
  /\ [](failed = maxRetries =>
          /\ aiPc = "threw"
          /\ aiError.code = "RESUME_OPTIMIZATION_FAILED"
          /\ aiError.message =
               <<"Failed to optimize resume: ", "AI service failed after ",
                 NumText(maxRetries), " attempts: ", lastError>>)
  /\ [][AttemptFails /\ aiPc' = "threw" =>
          /\ aiError'.message[3] = NumText(calls)
          /\ aiError'.message[5] = lastError'
          /\ lastError' # lastError => aiError'.message[5] # lastError]_vars

\* three attempts failed and the error names the three attempts and the rate
\* limit that ended the third
C15_Witness ==
  /\ aiPc = "threw"
  /\ failed = 3
  /\ calls = 3
  /\ aiError = OptimizeError(ExhaustedError(3, "API rate limit exceeded"))

\* optimizeResume was called
Called == aiPc # "idle"

\* optimizeResume has returned or thrown
Ended == aiPc \in {"returned", "threw"}

\* C20: provided every transport attempt terminates (by response, error or
\* timeout), every optimizeResume call eventually terminates with either a
\* record or an error, after at most maxRetries transport calls and at most
\* maxRetries - 1 backoff waits (no wait follows the final failed attempt).
C20_CallTerminates ==
  /\ Called ~> Ended
  /\ [](/\ calls <= maxRetries
        /\ Len(delays) + 1 <= maxRetries
        /\ aiPc = "returned" => ~aiOut.threw /\ aiOut.rec # NoRecord /\ aiError = NoError
        /\ aiPc = "threw" => aiError # NoError /\ aiOut = NoOutput
        /\ aiPc = "threw" /\ failed = maxRetries => Len(delays) = failed - 1)

\* the call ended with the error after three transport calls and two waits
C20_Witness ==
  /\ Ended
  /\ aiError # NoError
  /\ calls = 3
  /\ delays = <<2000, 4000>>

(***************************************************************************)
(* Properties of the is_default flag (SpecSeq, SpecDB).                    *)
(***************************************************************************)

\* the rows of user u marked default
Defaults(u) == {i \in Uuids : rows[i].live /\ rows[i].user = u /\ rows[i].isDefault}

\* C3: after any sequence of completed, non-overlapping create, update,
\* delete, set-default and duplicate requests, every user has at most one
\* row with is_default set.
C3_OneDefaultAfterRequests ==
  Quiet => \A u \in Users : Cardinality(Defaults(u)) <= 1

\* a set-default was answered 200 for a user with two rows, and one is the default
C3_Witness ==
  /\ Quiet
  /\ req[1].pc = "done"
  /\ req[1].op = "set-default"
  /\ req[1].status = 200
  /\ \E u \in Users : CountRows(rows, u) = 2 /\ Cardinality(Defaults(u)) = 1

\* C4: when requests of one user that set a default (create or update with
\* isDefault = true, set-default) overlap and their statements interleave at
\* the awaits, no interleaving ends with two rows of the user marked default.
C4_OneDefaultWhenOverlapping ==
  (\A c \in Clients : req[c].pc \in {"idle", "done"})
  => ~(\E u \in Users : \E i, j \in Defaults(u) : i # j)

(***************************************************************************)
(* Claims about the transport.                                             *)
(***************************************************************************)

Rank(m) == CHOOSE i \in 1..Len(Candidates) : Candidates[i] = m

EndsWith(message, part) ==
  /\ Len(part) <= Len(message)
  /\ SubSeq(message, Len(message) - Len(part) + 1, Len(message)) = part

\* the call in hand got a whole response whose status is not 200 to 299
NonOkResponse == tr.complete /\ ~(tr.status >= 200 /\ tr.status <= 299)

\* C22 as stated: a response whose status is outside 200 to 299 makes the
\* call fail with an error that carries the status code and the raw body.
C22_NonOkFailsWithStatusAndBody ==
  NonOkResponse =>
    /\ tr.outcome.kind = "error"
    /\ EndsWith(tr.outcome.message, HttpErrorMessage(tr.status, tr.sent))

\* C22, amended: a response whose status is outside 200 to 299 makes the
\* call fail with an error that carries the status code, and the raw body
\* unless a fetch client could not read it: then the status code stands in
\* the place of the body.
C22_NonOkFailsWithStatus ==
  NonOkResponse =>
    /\ tr.outcome.kind = "error"
    /\ \/ EndsWith(tr.outcome.message, HttpErrorMessage(tr.status, tr.sent))
       \/ /\ ~OnSocket(tr)
          /\ tr.data = <<>>
          /\ EndsWith(tr.outcome.message,
                      HttpErrorMessage(tr.status, <<"HTTP ", ToString(tr.status)>>))

\* status 500 with a body, answered by makeHTTPRequest
C22_Witness ==
  /\ tr.api = "makeHTTPRequest"
  /\ tr.complete
  /\ tr.status = 500
  /\ tr.sent = <<Chunk>>
  /\ tr.outcome = ErrorOf(HttpErrorMessage(500, <<Chunk>>))

TimedOut(t) ==
  t.outcome \in {ErrorOf(TimeoutMessage), ErrorOf(Enhanced(TimeoutMessage))}

\* C23: a request on the https module that has not completed within the
\* timeout is aborted and its call fails with the timeout error; a call
\* settles once; no response is delivered once the timeout has fired.
C23_TimeoutBoundsEveryCall ==
  OnSocket(tr) =>
    /\ tr.elapsed > TimeoutTicks => tr.fired /\ TimedOut(tr)
    /\ tr.fired => TimedOut(tr)
    /\ tr.pc = "closed" => tr.outcome # NoOutcome

\* the rows of user u that table t marks as default
DefaultsOf(t, u) == {i \in Uuids : t[i].live /\ t[i].user = u /\ t[i].isDefault}

OthersOf(t, u, uuid) == {i \in Uuids : t[i].live /\ t[i].user = u /\ i # uuid}

\* the oldest of a set of rows: uuids are given in the order of created_at
Oldest(ids) == CHOOSE i \in ids : \A j \in ids : i <= j

\* C25: the delete of a user's default row, the user having other rows,
\* marks the oldest of the other rows as default and goes on to the DELETE,
\* and after the DELETE is answered 200 the user has exactly one default.
C25_DeleteDefaultPromotesOldest ==
  [][LET r == req[1] IN
     /\ r.pc = "delete-promote" =>
          /\ req'[1].pc = "delete-row"
          /\ rows'[Oldest(OthersOf(rows, r.user, r.uuid))].isDefault
     /\ (r.pc = "delete-row" /\ r.wasDefault /\ r.count > 1
           /\ req'[1].status = 200) =>
          Cardinality(DefaultsOf(rows', r.user)) = 1]_vars

\* C26: an update with isDefault true whose uuid matches no row of the user
\* is answered 404 and leaves every is_default flag as the request found it.
C26_UpdateOfMissingRowChangesNothing ==
  [][LET r == req[1] IN
     (/\ r.op = "update" /\ r.isDefault /\ r.pc = "update-row"
      /\ ~Owned(rows, r.uuid, r.user)
      /\ req'[1].status # 500) =>
       /\ req'[1].status = 404
       /\ Flags(rows') = r.before]_vars

(***************************************************************************)
(* Claims about the resume routes.                                         *)
(***************************************************************************)

\* C27: a step of an optimize request changes the table resumes only after
\* the AI service has returned a record, only when resumeUuid is given and
\* saveAsNew is not, and only in the row of that uuid owned by the user of
\* the request, which gets the optimized content and the status optimized;
\* a request that is rejected or whose AI call fails changes no row.
C27_OptimizeWritesOnlyAfterAI ==
  [][(\/ rreq.op = "optimize" /\ ResumeInHand
      \/ rreq.pc = "idle" /\ rreq'.op = "optimize") =>
       /\ resumes' # resumes =>
            /\ rreq.aiReturned
            /\ rreq.resumeUuid # "" /\ ~rreq.saveAsNew
            /\ \A i \in ResumeIds :
                 resumes'[i] # resumes[i] =>
                   /\ i = rreq.resumeUuid
                   /\ resumes[i].user = rreq.user
                   /\ resumes'[i] = Resume(rreq.user, "optimized", "ai")
       /\ (rreq'.pc = "done" /\ ~rreq'.aiReturned) => resumes' = resumes]_vars

\* the AI call of a request that names a resume of its user has failed, and
\* the row is as it was
C27_Witness ==
  /\ rreq.op = "optimize"
  /\ rreq.pc = "done"
  /\ rreq.status = 500
  /\ rreq.jobDescription /\ rreq.info
  /\ rreq.profile = "none" /\ ~rreq.template
  /\ ~rreq.aiReturned
  /\ rreq.user = "ann" /\ rreq.resumeUuid = "r1" /\ ~rreq.saveAsNew
  /\ resumes["r1"] = Resume("ann", "draft", "")

\* a row of another user than u is in t2 as it is in t1, and t2 has no row of
\* another user that t1 has not
OthersKept(t1, t2, ids, u) ==
  \A i \in ids :
    ((t1[i].live /\ t1[i].user # u) \/ (t2[i].live /\ t2[i].user # u))
      => t2[i] = t1[i]

\* C28: a step of a request of user u leaves every row of another user as it
\* is, its is_default flag included, and a request that names a row of
\* another user by its uuid is answered not found (or 500 when a statement
\* fails), on the template and profile routes and on the resume routes.
C28_OtherUsersRowsUntouched ==
  [][/\ InHand(1) =>
          LET r == req[1] IN
          /\ OthersKept(rows, rows', Uuids, r.user)
          /\ (/\ req'[1].pc = "done"
              /\ r.op \in {"update", "delete", "set-default", "duplicate"}
              /\ rows[r.uuid].live /\ rows[r.uuid].user # r.user)
               => req'[1].status \in {404, 500}
     /\ rreq'.pc \notin {"idle", "off"} =>
          LET r == rreq' IN
          /\ OthersKept(resumes, resumes', ResumeIds, r.user)
          /\ (/\ r.pc = "done"
              /\ r.op \in {"put", "delete"} \/ rreq.pc = "optimize-save"
              /\ r.resumeUuid \in ResumeIds
              /\ resumes[r.resumeUuid].live
              /\ resumes[r.resumeUuid].user # r.user)
               => r.status \in {404, 500}]_vars

\* bob has asked for the delete of ann's resume and got 404
C28_Witness ==
  /\ rreq.op = "delete" /\ rreq.pc = "done" /\ rreq.status = 404
  /\ rreq.user = "bob" /\ rreq.resumeUuid = "r1"
  /\ resumes["r1"].live /\ resumes["r1"].user = "ann"

\* C29: after any interleaving of registration requests, two concurrent ones
\* with the same email that both pass the existence check included, the
\* table users holds at most one row per email and at most one of the
\* requests for an email is answered with success.
C29_OneRowAndOneSuccessPerEmail ==
  \A e \in StoredEmails : userRows[e] <= 1 /\ created[e] <= 1

\* two requests with one email, written differently in the two bodies or not,
\* both found no row; one is answered 201 and the other 409
C29_Witness ==
  /\ reg[1].pc = "done" /\ reg[2].pc = "done"
  /\ reg[1].email = reg[2].email
  /\ reg[1].passed /\ reg[2].passed
  /\ reg[1].status = 201 /\ reg[2].status = 409
  /\ userRows[reg[1].email] = 1

\* the envelope in hand with its candidate finished for the reason STOP
FinishedByStop == [eData EXCEPT !.finishReason = "STOP"]

\* C30: a candidate whose finishReason is neither STOP nor SAFETY (for
\* example MAX_TOKENS) and that carries non-empty text is accepted as a
\* successful attempt and its text is passed to the repair stage;
\* finishReason SAFETY is the only finish reason that makes an attempt fail.
C30_OtherFinishReasonWithTextAccepted ==
  ePc = "returned" =>
    /\ ( /\ ~Truthy(eData.error)
         /\ eData.hasCandidate /\ eData.hasPart /\ eData.hasText
         /\ eData.finishReason \notin {"STOP", "SAFETY"}
         /\ eData.text # <<>> )
       => eOut.ok /\ eOut.content = eData.text
    /\ eData.finishReason # "SAFETY" => eOut = parseResponse(FinishedByStop)

\* C30, amended: a candidate whose finishReason is neither STOP nor SAFETY
\* and whose text is non-empty after trimming, in an envelope without an
\* error member of a truthy value, is accepted as a successful attempt and
\* its text is passed to the repair stage untrimmed; finishReason SAFETY is
\* the only finish reason that makes an attempt fail.
C30_OtherFinishReasonWithTrimmedTextAccepted ==
  ePc = "returned" =>
    /\ ( /\ ~Truthy(eData.error)
         /\ eData.finishReason \notin {"STOP", "SAFETY"}
         /\ HasText )
       => eOut.ok /\ eOut.content = eData.text
    /\ eData.finishReason # "SAFETY" => eOut = parseResponse(FinishedByStop)

\* a candidate cut off at the token limit, its text without white space
\* around, was accepted and its text handed on
C30_Witness ==
  /\ ePc = "returned"
  /\ eData.finishReason = "MAX_TOKENS"
  /\ eData.text = Trim(eData.text)
  /\ eOut.ok
  /\ eOut.content = eData.text

====
